---------------------------- MODULE Spec2Model ----------------------------
(***************************************************************************)
(* Model of the granite2 translator: the construction of a Petri net from  *)
(* the terminators of a program (condition variables, mutexes, threads),   *)
(* followed by the token game on the finished net.                         *)
(*                                                                         *)
(* Phase "translate": one action per terminator visited by the walker.     *)
(* Phase "run": the net is finished, its transitions fire.                 *)
(***************************************************************************)
EXTENDS Integers, Sequences, FiniteSets, TLC

(***************************************************************************)
(* Bounds of the model (not program constants).                            *)
(***************************************************************************)
MaxCondvars == 1
MaxMutexes == 1
MaxThreads == 1
MaxCalls == 5
MaxClosureCalls == 1
MaxPlainDrops == 1
MaxWalked == 4

VARIABLES
    net,                \* the PetriNet under construction
    condvars,           \* CondvarManager.condvars : Vec<Condvar>
    wait_counter,       \* CondvarManager.wait_counter
    notify_one_counter, \* CondvarManager.notify_one_counter
    mutexes,            \* MutexManager: Vec<Mutex>
    lock_counter,       \* MutexManager: counter of lock calls
    threads,            \* ThreadManager: Vec<Thread>
    join_counter,       \* ThreadManager: counter of join calls
    memory,             \* Memory: local slot -> handle it denotes
    function,           \* activation record of the function being translated
    pending,            \* spawned threads whose body is still to be translated
    program,            \* the terminators visited so far (the input program)
    phase,              \* "translate" | "run"
    marking,            \* tokens per place while the finished net runs
    fired,              \* labels of the transitions that fired so far
    input,              \* the arguments a helper function is applied to
    result              \* what the helper function answered

vars == <<net, condvars, wait_counter, notify_one_counter, mutexes, lock_counter,
          threads, join_counter, memory, function, pending, program, phase,
          marking, fired, input, result>>

(***************************************************************************)
(* Net construction interface (netcrab's PetriNet behind the wrappers).    *)
(* Arcs are maps from <<source, target>> to their multiplicity.            *)
(***************************************************************************)
EmptyNet == [places |-> {}, transitions |-> {}, pt |-> <<>>, tp |-> <<>>, tokens |-> <<>>]

add_place(n, label) ==
    [n EXCEPT !.places = @ \cup {label},
              !.tokens = IF label \in DOMAIN @ THEN @ ELSE @ @@ (label :> 0)]

add_token(n, place, k) == [n EXCEPT !.tokens[place] = @ + k]

add_transition(n, label) == [n EXCEPT !.transitions = @ \cup {label}]

AddArc(arcs, a) == IF a \in DOMAIN arcs THEN [arcs EXCEPT ![a] = @ + 1] ELSE arcs @@ (a :> 1)

add_arc_place_transition(n, place_ref, transition_ref) ==
    [n EXCEPT !.pt = AddArc(@, <<place_ref, transition_ref>>)]

\* add_arc_transition_place adding the arc with multiplicity 2.
add_arc_transition_place_twice(n, transition_ref, place_ref) ==
    [n EXCEPT !.tp = AddArc(AddArc(@, <<transition_ref, place_ref>>),
                            <<transition_ref, place_ref>>)]

add_arc_transition_place(n, transition_ref, place_ref) ==
    [n EXCEPT !.tp = AddArc(@, <<transition_ref, place_ref>>)]


(***************************************************************************)
(* Naming of places and transitions.                                       *)
(***************************************************************************)
PROGRAM_START == "PROGRAM_START"
PROGRAM_END == "PROGRAM_END"
PROGRAM_PANIC == "PROGRAM_PANIC"

\* The functions of the programs translated here: main and the closures
\* handed to std::thread::spawn.
closure_name(index) == "main::{closure#" \o ToString(index) \o "}"

sanitize(function_name) ==
    IF function_name = "main" THEN "main"
    ELSE IF function_name = "std::mem::drop" THEN "std_mem_drop"
    ELSE IF function_name = "std::process::id" THEN "std_process_id"
    ELSE CHOOSE s \in {"main_closure_" \o ToString(i) : i \in 0..MaxThreads} :
            \E i \in 0..MaxThreads :
                function_name = closure_name(i) /\ s = "main_closure_" \o ToString(i)

\* return_transition_label with the suffix of a call transition.
return_transition_label_as_call(function_name) == sanitize(function_name) \o "_CALL"

return_transition_label(function_name) == sanitize(function_name) \o "_RETURN"

foreign_call_transition_labels(function_name) ==
    <<sanitize(function_name) \o "_CALL", sanitize(function_name) \o "_CALL_UNWIND">>

spawn_transition_labels(index) ==
    <<"std_thread_spawn_" \o ToString(index),
      "std_thread_spawn_" \o ToString(index) \o "_UNWIND">>

join_transition_labels(index) ==
    <<"std_thread_JoinHandle_T_join_" \o ToString(index),
      "std_thread_JoinHandle_T_join_" \o ToString(index) \o "_UNWIND">>

start_place_label(index) == "THREAD_" \o ToString(index) \o "_START"

\* end_place_label answering with the label of the start place.
end_place_label_as_start(index) == "THREAD_" \o ToString(index) \o "_START"

end_place_label(index) == "THREAD_" \o ToString(index) \o "_END"

\* naming::condvar
place_labels(index) ==
    <<"CONDVAR_" \o ToString(index) \o "_LOST_SIGNAL_POSSIBLE",
      "CONDVAR_" \o ToString(index) \o "_SIGNAL_INPUT",
      "CONDVAR_" \o ToString(index) \o "_WAIT_INPUT",
      "CONDVAR_" \o ToString(index) \o "_SIGNAL_OUTPUT">>

transition_labels(index) ==
    <<"CONDVAR_" \o ToString(index) \o "_LOST_SIGNAL_TRANSITION",
      "CONDVAR_" \o ToString(index) \o "_SIGNAL_TRANSITION">>

new_transition_labels(index) ==
    <<"std_sync_Condvar_new_" \o ToString(index),
      "std_sync_Condvar_new_" \o ToString(index) \o "_UNWIND">>

wait_transition_labels(index) ==
    <<"std_sync_Condvar_wait_" \o ToString(index) \o "_START",
      "std_sync_Condvar_wait_" \o ToString(index) \o "_END",
      "std_sync_Condvar_wait_" \o ToString(index) \o "_UNWIND">>

notify_one_transition_labels(index) ==
    <<"std_sync_Condvar_notify_one_" \o ToString(index),
      "std_sync_Condvar_notify_one_" \o ToString(index) \o "_UNWIND">>

\* naming::mutex
mutex_place_labels(index) ==
    <<"MUTEX_" \o ToString(index) \o "_UNLOCKED", "MUTEX_" \o ToString(index) \o "_LOCKED">>

mutex_new_transition_labels(index) ==
    <<"std_sync_Mutex_T_new_" \o ToString(index),
      "std_sync_Mutex_T_new_" \o ToString(index) \o "_UNWIND">>

lock_transition_labels(index) ==
    <<"std_sync_Mutex_T_lock_" \o ToString(index),
      "std_sync_Mutex_T_lock_" \o ToString(index) \o "_UNWIND">>

\* naming::basic_block
block_place_label(function_name, index) ==
    sanitize(function_name) \o "_BLOCK_" \o ToString(index)

cleanup_place_label(function_name) == sanitize(function_name) \o "_CLEANUP"

drop_transition_label(function_name, index) ==
    sanitize(function_name) \o "_DROP_" \o ToString(index)

unwind_transition_label(function_name) == sanitize(function_name) \o "_UNWIND"

unreachable_transition_label(function_name, index) ==
    sanitize(function_name) \o "_UNREACHABLE_" \o ToString(index)

\* Condvar::new without the initial token in lost_signal_possible.
Condvar_new_without_token(index, n) ==
    LET pl == place_labels(index)
        tl == transition_labels(index)
        n1 == add_place(add_place(add_place(add_place(n, pl[1]), pl[2]), pl[3]), pl[4])
        n2 == add_transition(add_transition(n1, tl[1]), tl[2])
        n3 == add_arc_place_transition(n2, pl[1], tl[1])
        n4 == add_arc_place_transition(n3, pl[2], tl[1])
        n5 == add_arc_place_transition(n4, pl[3], tl[2])
        n6 == add_arc_place_transition(n5, pl[2], tl[2])
        n7 == add_arc_transition_place(n6, tl[1], pl[1])
        n8 == add_arc_transition_place(n7, tl[2], pl[1])
        n9 == add_arc_transition_place(n8, tl[2], pl[4])
    IN  [net |-> n9,
         condvar |-> [lost_signal_possible |-> pl[1], signal_input |-> pl[2],
                      wait_input |-> pl[3], signal_output |-> pl[4]]]

\* Condvar::new whose signal_transition does not give the token back to
\* lost_signal_possible.
Condvar_new_signal_not_restoring(index, n) ==
    LET pl == place_labels(index)
        tl == transition_labels(index)
        n1 == add_place(add_place(add_place(add_place(n, pl[1]), pl[2]), pl[3]), pl[4])
        n2 == add_token(n1, pl[1], 1)
        n3 == add_transition(add_transition(n2, tl[1]), tl[2])
        n4 == add_arc_place_transition(n3, pl[1], tl[1])
        n5 == add_arc_place_transition(n4, pl[2], tl[1])
        n6 == add_arc_place_transition(n5, pl[3], tl[2])
        n7 == add_arc_place_transition(n6, pl[2], tl[2])
        n8 == add_arc_transition_place(n7, tl[1], pl[1])
        n9 == add_arc_transition_place(n8, tl[2], pl[4])
    IN  [net |-> n9,
         condvar |-> [lost_signal_possible |-> pl[1], signal_input |-> pl[2],
                      wait_input |-> pl[3], signal_output |-> pl[4]]]

(***************************************************************************)
(* Condvar: four places and two transitions.                               *)
(***************************************************************************)
Condvar_new(index, n) ==
    LET pl == place_labels(index)
        lost_signal_possible == pl[1]
        signal_input == pl[2]
        wait_input == pl[3]
        signal_output == pl[4]
        n1 == add_place(n, lost_signal_possible)
        n2 == add_place(n1, signal_input)
        n3 == add_place(n2, wait_input)
        n4 == add_place(n3, signal_output)
        n5 == add_token(n4, lost_signal_possible, 1)
        tl == transition_labels(index)
        lost_signal_transition == tl[1]
        signal_transition == tl[2]
        n6 == add_transition(n5, lost_signal_transition)
        n7 == add_transition(n6, signal_transition)
        n8 == add_arc_place_transition(n7, lost_signal_possible, lost_signal_transition)
        n9 == add_arc_place_transition(n8, signal_input, lost_signal_transition)
        n10 == add_arc_place_transition(n9, wait_input, signal_transition)
        n11 == add_arc_place_transition(n10, signal_input, signal_transition)
        n12 == add_arc_transition_place(n11, lost_signal_transition, lost_signal_possible)
        n13 == add_arc_transition_place(n12, signal_transition, lost_signal_possible)
        n14 == add_arc_transition_place(n13, signal_transition, signal_output)
    IN  [net |-> n14,
         condvar |-> [lost_signal_possible |-> lost_signal_possible,
                      signal_input |-> signal_input,
                      wait_input |-> wait_input,
                      signal_output |-> signal_output]]

\* link_to_wait_call whose wait-start puts no token into wait_input.
Condvar_link_to_wait_call_without_wait_input(condvar, wait_start_transition, wait_end_transition, n) ==
    LET n1 == add_arc_place_transition(n, condvar.lost_signal_possible, wait_start_transition)
    IN  add_arc_place_transition(n1, condvar.signal_output, wait_end_transition)

\* link_to_wait_call that leaves the token in lost_signal_possible.
Condvar_link_to_wait_call_keeping_lost_signal(condvar, wait_start_transition, wait_end_transition, n) ==
    LET n1 == add_arc_transition_place(n, wait_start_transition, condvar.wait_input)
    IN  add_arc_place_transition(n1, condvar.signal_output, wait_end_transition)

Condvar_link_to_wait_call(condvar, wait_start_transition, wait_end_transition, n) ==
    LET n1 == add_arc_place_transition(n, condvar.lost_signal_possible, wait_start_transition)
        n2 == add_arc_transition_place(n1, wait_start_transition, condvar.wait_input)
    IN  add_arc_place_transition(n2, condvar.signal_output, wait_end_transition)

\* link_to_notify_one_call producing into signal_output instead of signal_input.
Condvar_link_to_notify_one_call_into_output(condvar, signal_transition, n) ==
    add_arc_transition_place(n, signal_transition, condvar.signal_output)

Condvar_link_to_notify_one_call(condvar, signal_transition, n) ==
    add_arc_transition_place(n, signal_transition, condvar.signal_input)

(***************************************************************************)
(* Call fragments.  FunctionPlaces is (start_place, end_place,             *)
(* cleanup_place); NoPlace stands for a cleanup place of None.             *)
(***************************************************************************)
NoPlace == "None"

FunctionPlaces(start_place, end_place, cleanup_place) ==
    [start_place |-> start_place, end_place |-> end_place, cleanup_place |-> cleanup_place]

\* An opaque call: start place -> call transition -> end place, and with a
\* cleanup place start place -> unwind transition -> cleanup place.
call_foreign_function(function_call_places, labels, n) ==
    LET start_place == function_call_places.start_place
        end_place == function_call_places.end_place
        cleanup_place == function_call_places.cleanup_place
        n1 == add_transition(n, labels[1])
        n2 == add_arc_place_transition(n1, start_place, labels[1])
        n3 == add_arc_transition_place(n2, labels[1], end_place)
        n4 == add_transition(n3, labels[2])
        n5 == add_arc_place_transition(n4, start_place, labels[2])
        n6 == add_arc_transition_place(n5, labels[2], cleanup_place)
    IN  [net |-> IF cleanup_place # NoPlace THEN n6 ELSE n3, transition |-> labels[1]]

\* create_wait_function_call whose unwind transition leaves from the end
\* place of the call.
create_wait_function_call_unwind_from_end(function_call_places, labels, n) ==
    LET start_place == function_call_places.start_place
        end_place == function_call_places.end_place
        cleanup_place == function_call_places.cleanup_place
        n1 == add_transition(n, labels[1])
        n2 == add_arc_place_transition(n1, start_place, labels[1])
        n3 == add_transition(n2, labels[2])
        n4 == add_arc_transition_place(n3, labels[2], end_place)
        n5 == add_transition(n4, labels[3])
        n6 == add_arc_place_transition(n5, end_place, labels[3])
        n7 == add_arc_transition_place(n6, labels[3], cleanup_place)
    IN  [net |-> IF cleanup_place # NoPlace THEN n7 ELSE n4,
         transitions |-> <<labels[1], labels[2]>>]

\* create_wait_function_call leaving the unwind transition without its arc
\* to the cleanup place.
create_wait_function_call_open_unwind(function_call_places, labels, n) ==
    LET start_place == function_call_places.start_place
        end_place == function_call_places.end_place
        cleanup_place == function_call_places.cleanup_place
        n1 == add_transition(n, labels[1])
        n2 == add_arc_place_transition(n1, start_place, labels[1])
        n3 == add_transition(n2, labels[2])
        n4 == add_arc_transition_place(n3, labels[2], end_place)
        n5 == add_transition(n4, labels[3])
        n6 == add_arc_place_transition(n5, start_place, labels[3])
    IN  [net |-> IF cleanup_place # NoPlace THEN n6 ELSE n4,
         transitions |-> <<labels[1], labels[2]>>]

create_wait_function_call(function_call_places, labels, n) ==
    LET start_place == function_call_places.start_place
        end_place == function_call_places.end_place
        cleanup_place == function_call_places.cleanup_place
        wait_start_transition == labels[1]
        n1 == add_transition(n, wait_start_transition)
        n2 == add_arc_place_transition(n1, start_place, wait_start_transition)
        wait_end_transition == labels[2]
        n3 == add_transition(n2, wait_end_transition)
        n4 == add_arc_transition_place(n3, wait_end_transition, end_place)
        unwind_transition == labels[3]
        n5 == add_transition(n4, unwind_transition)
        n6 == add_arc_place_transition(n5, start_place, unwind_transition)
        n7 == add_arc_transition_place(n6, unwind_transition, cleanup_place)
    IN  [net |-> IF cleanup_place # NoPlace THEN n7 ELSE n4,
         transitions |-> <<wait_start_transition, wait_end_transition>>]

(***************************************************************************)
(* Memory: the handle each local slot denotes.                             *)
(***************************************************************************)
extract_nth_argument(args, index) == args[index + 1]

get_linked_lock_guard(mem, slot) == mem[slot].ref

get_linked_condvar(mem, slot) == mem[slot].ref

get_linked_mutex(mem, slot) == mem[slot].ref

get_linked_join_handle(mem, slot) == mem[slot].ref

link_place_to_condvar(mem, condvar_ref) == Append(mem, [kind |-> "condvar", ref |-> condvar_ref])

link_place_to_mutex(mem, mutex_ref) == Append(mem, [kind |-> "mutex", ref |-> mutex_ref])

link_place_to_lock_guard(mem, mutex_ref) == Append(mem, [kind |-> "guard", ref |-> mutex_ref])

link_place_to_join_handle(mem, thread_ref) == Append(mem, [kind |-> "thread", ref |-> thread_ref])

SlotsOf(mem, kind) == {s \in DOMAIN mem : mem[s].kind = kind}

(***************************************************************************)
(* Mutex: an unlocked and a locked place.                                  *)
(***************************************************************************)
Mutex_new(index, n) ==
    LET pl == mutex_place_labels(index)
        n1 == add_place(n, pl[1])
        n2 == add_place(n1, pl[2])
        n3 == add_token(n2, pl[1], 1)
    IN  [net |-> n3, mutex |-> [unlocked |-> pl[1], locked |-> pl[2]]]

add_lock_guard(mutex, transition, n) ==
    add_arc_transition_place(add_arc_place_transition(n, mutex.unlocked, transition),
                             transition, mutex.locked)

add_unlock_guard(mutex, transition, n) ==
    add_arc_transition_place(add_arc_place_transition(n, mutex.locked, transition),
                             transition, mutex.unlocked)

(***************************************************************************)
(* CondvarManager.  The operators take the manager's fields they read and  *)
(* return the net (and transitions) they produce; the actions below store   *)
(* the new counters.                                                       *)
(***************************************************************************)
translate_call_new(cvs, function_call_places, n) ==
    LET index == Len(cvs)
    IN  call_foreign_function(function_call_places, new_transition_labels(index), n)

translate_call_wait(counter, function_call_places, n) ==
    LET index == counter
    IN  create_wait_function_call(function_call_places, wait_transition_labels(index), n)

translate_call_notify_one(counter, function_call_places, n) ==
    LET index == counter
    IN  call_foreign_function(function_call_places, notify_one_transition_labels(index), n)

\* add_condvar that puts the new condvar in front of the registry.
add_condvar_in_front(cvs, n) ==
    LET index == Len(cvs)
        made == Condvar_new(index, n)
    IN  [net |-> made.net, condvars |-> <<made.condvar>> \o cvs, condvar_ref |-> index]

add_condvar(cvs, n) ==
    LET index == Len(cvs)
        made == Condvar_new(index, n)
    IN  [net |-> made.net, condvars |-> Append(cvs, made.condvar), condvar_ref |-> index]

get_condvar_from_ref(cvs, condvar_ref) == cvs[condvar_ref + 1]

\* link_to_wait_call handing the pair of transitions over in the wrong order.
link_to_wait_call_swapped(cvs, condvar_ref, wait_transitions, n) ==
    Condvar_link_to_wait_call(get_condvar_from_ref(cvs, condvar_ref),
                              wait_transitions[2], wait_transitions[1], n)

link_to_wait_call(cvs, condvar_ref, wait_transitions, n) ==
    Condvar_link_to_wait_call(get_condvar_from_ref(cvs, condvar_ref),
                              wait_transitions[1], wait_transitions[2], n)

\* link_to_notify_one_call linking the notify transition as a wait call.
link_to_notify_one_call_as_wait(cvs, condvar_ref, signal_transition, n) ==
    Condvar_link_to_wait_call(get_condvar_from_ref(cvs, condvar_ref),
                              signal_transition, signal_transition, n)

link_to_notify_one_call(cvs, condvar_ref, signal_transition, n) ==
    Condvar_link_to_notify_one_call(get_condvar_from_ref(cvs, condvar_ref), signal_transition, n)

\* translate_side_effects_wait locking at wait-start and unlocking at wait-end.
translate_side_effects_wait_lock_first(cvs, mxs, args, wait_transitions, n, mem) ==
    LET lock_guard == extract_nth_argument(args, 1)
        mutex_ref == get_linked_lock_guard(mem, lock_guard)
        n1 == add_lock_guard(mxs[mutex_ref + 1], wait_transitions[1], n)
        n2 == add_unlock_guard(mxs[mutex_ref + 1], wait_transitions[2], n1)
        self_ref == extract_nth_argument(args, 0)
        condvar_ref == get_linked_condvar(mem, self_ref)
    IN  link_to_wait_call(cvs, condvar_ref, wait_transitions, n2)

translate_side_effects_wait(cvs, mxs, args, wait_transitions, n, mem) ==
    LET lock_guard == extract_nth_argument(args, 1)
        mutex_ref == get_linked_lock_guard(mem, lock_guard)
        n1 == add_unlock_guard(mxs[mutex_ref + 1], wait_transitions[1], n)
        n2 == add_lock_guard(mxs[mutex_ref + 1], wait_transitions[2], n1)
        self_ref == extract_nth_argument(args, 0)
        condvar_ref == get_linked_condvar(mem, self_ref)
    IN  link_to_wait_call(cvs, condvar_ref, wait_transitions, n2)

translate_side_effects_notify_one(cvs, args, notify_one_transition, n, mem) ==
    LET self_ref == extract_nth_argument(args, 0)
        condvar_ref == get_linked_condvar(mem, self_ref)
    IN  link_to_notify_one_call(cvs, condvar_ref, notify_one_transition, n)

(***************************************************************************)
(* The walker: one activation record at a time, blocks in program order.   *)
(***************************************************************************)
NewFunction(name, start_place, end_place) ==
    [name |-> name, cur |-> start_place, end_place |-> end_place, block |-> 0,
     calls |-> 0, cleanup_used |-> FALSE, guards |-> {}, handles |-> {}, pc |-> "blocks"]

InitialNet ==
    LET n1 == add_place(EmptyNet, PROGRAM_START)
        n2 == add_place(n1, PROGRAM_END)
        n3 == add_place(n2, PROGRAM_PANIC)
    IN  add_token(n3, PROGRAM_START, 1)

\* The state of a fresh translator.
Fresh ==
    /\ net = InitialNet
    /\ condvars = <<>>
    /\ wait_counter = 0
    /\ notify_one_counter = 0
    /\ mutexes = <<>>
    /\ lock_counter = 0
    /\ threads = <<>>
    /\ join_counter = 0
    /\ memory = <<>>
    /\ function = NewFunction("main", PROGRAM_START, PROGRAM_END)
    /\ pending = <<>>
    /\ program = <<>>
    /\ phase = "translate"
    /\ marking = <<>>
    /\ fired = {}

\* No helper function has been applied.
NoValue == <<>>

Init == Fresh /\ input = NoValue /\ result = NoValue

\* The places of a call terminator in the current block: the block's place,
\* the target block's place and, with a cleanup block, the cleanup place.
CallPlaces(cleanup) ==
    FunctionPlaces(function.cur,
                   block_place_label(function.name, function.block + 1),
                   IF cleanup THEN cleanup_place_label(function.name) ELSE NoPlace)

WithPlaces(n, fp) ==
    LET n1 == add_place(n, fp.end_place)
    IN  IF fp.cleanup_place # NoPlace THEN add_place(n1, fp.cleanup_place) ELSE n1

Advance(f, fp) ==
    [f EXCEPT !.cur = fp.end_place, !.block = @ + 1, !.calls = @ + 1,
              !.cleanup_used = @ \/ fp.cleanup_place # NoPlace]

\* A terminator of the input program: its kind (for a call, the callee), the
\* function it belongs to, the operands of the call, and the places of its
\* block, its target block and its cleanup block.
Terminator(kind, args, fp) ==
    [kind |-> kind, function |-> function.name, args |-> args, places |-> fp]

CanVisit == phase = "translate" /\ function.pc = "blocks"

\* MaxCalls bounds the calls of main, MaxClosureCalls those of a thread's closure.
CanCall ==
    /\ CanVisit
    /\ function.calls < (IF function.name = "main" THEN MaxCalls ELSE MaxClosureCalls)

Unchanged_run == UNCHANGED <<marking, fired, phase, input, result>>

\* Call of std::sync::Condvar::new.
CondvarNewCall ==
    /\ CanCall
    /\ LET fp == CallPlaces(FALSE)
           call == translate_call_new(condvars, fp, WithPlaces(net, fp))
           added == add_condvar(condvars, call.net)
       IN  /\ net' = added.net
           /\ condvars' = added.condvars
           /\ memory' = link_place_to_condvar(memory, added.condvar_ref)
           /\ function' = Advance(function, fp)
    /\ program' = Append(program, Terminator("std::sync::Condvar::new", <<>>, CallPlaces(FALSE)))
    /\ Unchanged_run
    /\ UNCHANGED <<wait_counter, notify_one_counter, mutexes, lock_counter, threads,
                   join_counter, pending>>

CallCondvarNew == Len(condvars) < MaxCondvars /\ CondvarNewCall

\* Call of std::sync::Condvar::notify_one(&condvar).
CallNotifyOne(self_ref, cleanup) ==
    /\ CanCall
    /\ self_ref \in SlotsOf(memory, "condvar")
    /\ LET fp == CallPlaces(cleanup)
           args == <<self_ref>>
           call == translate_call_notify_one(notify_one_counter, fp, WithPlaces(net, fp))
       IN  /\ net' = translate_side_effects_notify_one(condvars, args, call.transition,
                                                       call.net, memory)
           /\ notify_one_counter' = notify_one_counter + 1
           /\ function' = Advance(function, fp)
    /\ program' = Append(program, Terminator("std::sync::Condvar::notify_one", <<self_ref>>,
                                              CallPlaces(cleanup)))
    /\ Unchanged_run
    /\ UNCHANGED <<condvars, wait_counter, mutexes, lock_counter, threads, join_counter,
                   memory, pending>>

\* Call of std::sync::Condvar::wait(&condvar, guard).
WaitCall(self_ref, lock_guard, cleanup) ==
    /\ CanVisit
    /\ self_ref \in SlotsOf(memory, "condvar")
    /\ lock_guard \in function.guards
    /\ LET fp == CallPlaces(cleanup)
           args == <<self_ref, lock_guard>>
           call == translate_call_wait(wait_counter, fp, WithPlaces(net, fp))
       IN  /\ net' = translate_side_effects_wait(condvars, mutexes, args, call.transitions,
                                                 call.net, memory)
           /\ wait_counter' = wait_counter + 1
           /\ function' = Advance(function, fp)
    /\ program' = Append(program, Terminator("std::sync::Condvar::wait",
                                              <<self_ref, lock_guard>>, CallPlaces(cleanup)))
    /\ Unchanged_run
    /\ UNCHANGED <<condvars, notify_one_counter, mutexes, lock_counter, threads,
                   join_counter, memory, pending>>

CallWait(self_ref, lock_guard, cleanup) == CanCall /\ WaitCall(self_ref, lock_guard, cleanup)

\* Call of std::sync::Mutex::<T>::new.
CallMutexNew ==
    /\ CanCall
    /\ Len(mutexes) < MaxMutexes
    /\ LET fp == CallPlaces(FALSE)
           index == Len(mutexes)
           call == call_foreign_function(fp, mutex_new_transition_labels(index),
                                         WithPlaces(net, fp))
           made == Mutex_new(index, call.net)
       IN  /\ net' = made.net
           /\ mutexes' = Append(mutexes, made.mutex)
           /\ memory' = link_place_to_mutex(memory, index)
           /\ function' = Advance(function, fp)
    /\ program' = Append(program, Terminator("std::sync::Mutex::<T>::new", <<>>,
                                              CallPlaces(FALSE)))
    /\ Unchanged_run
    /\ UNCHANGED <<condvars, wait_counter, notify_one_counter, lock_counter, threads,
                   join_counter, pending>>

\* Call of std::sync::Mutex::<T>::lock(&mutex): the destination is a new guard.
CallLock(self_ref) ==
    /\ CanCall
    /\ self_ref \in SlotsOf(memory, "mutex")
    /\ LET fp == CallPlaces(FALSE)
           mutex_ref == get_linked_mutex(memory, self_ref)
           call == call_foreign_function(fp, lock_transition_labels(lock_counter),
                                         WithPlaces(net, fp))
       IN  /\ net' = add_lock_guard(mutexes[mutex_ref + 1], call.transition, call.net)
           /\ memory' = link_place_to_lock_guard(memory, mutex_ref)
           /\ function' = [Advance(function, fp) EXCEPT !.guards = @ \cup {Len(memory) + 1}]
    /\ lock_counter' = lock_counter + 1
    /\ program' = Append(program, Terminator("std::sync::Mutex::<T>::lock", <<self_ref>>,
                                              CallPlaces(FALSE)))
    /\ Unchanged_run
    /\ UNCHANGED <<condvars, wait_counter, notify_one_counter, mutexes, threads,
                   join_counter, pending>>

\* Thread: a start place and an end place.
Thread_new(index, n) ==
    LET n1 == add_place(n, start_place_label(index))
        n2 == add_place(n1, end_place_label(index))
    IN  [net |-> n2,
         thread |-> [start_place |-> start_place_label(index),
                     end_place |-> end_place_label(index)]]

\* Call of std::thread::spawn(closure): the destination is a new join handle.
CallSpawn ==
    /\ CanCall
    /\ Len(threads) < MaxThreads
    /\ LET fp == CallPlaces(FALSE)
           index == Len(threads)
           call == call_foreign_function(fp, spawn_transition_labels(index),
                                         WithPlaces(net, fp))
           made == Thread_new(index, call.net)
       IN  /\ net' = add_arc_transition_place(made.net, call.transition,
                                              made.thread.start_place)
           /\ threads' = Append(threads, made.thread)
           /\ memory' = link_place_to_join_handle(memory, index)
           /\ pending' = Append(pending, index)
           /\ function' = [Advance(function, fp) EXCEPT !.handles = @ \cup {Len(memory) + 1}]
    /\ program' = Append(program, Terminator("std::thread::spawn", <<>>, CallPlaces(FALSE)))
    /\ Unchanged_run
    /\ UNCHANGED <<condvars, wait_counter, notify_one_counter, mutexes, lock_counter,
                   join_counter>>

\* thread::call_join: the call transition consumes the thread's end place.
call_join(index, args, fp, n, mem, ths) ==
    LET call == call_foreign_function(fp, join_transition_labels(index), n)
        thread_ref == get_linked_join_handle(mem, extract_nth_argument(args, 0))
    IN  add_arc_place_transition(call.net, ths[thread_ref + 1].end_place, call.transition)

\* Call of std::thread::JoinHandle::<T>::join(handle): the handle is moved.
CallJoin(self_ref) ==
    /\ CanCall
    /\ self_ref \in function.handles
    /\ LET fp == CallPlaces(FALSE)
       IN  /\ net' = call_join(join_counter, <<self_ref>>, fp, WithPlaces(net, fp),
                               memory, threads)
           /\ function' = [Advance(function, fp) EXCEPT !.handles = @ \ {self_ref}]
    /\ join_counter' = join_counter + 1
    /\ program' = Append(program, Terminator("std::thread::JoinHandle::<T>::join",
                                              <<self_ref>>, CallPlaces(FALSE)))
    /\ Unchanged_run
    /\ UNCHANGED <<condvars, wait_counter, notify_one_counter, mutexes, lock_counter,
                   threads, memory, pending>>

\* MutexManager::handle_lock_guard_drop: a dropped guard unlocks its mutex.
handle_lock_guard_drop(place, transition_drop, mem, mxs, n) ==
    IF place \in DOMAIN mem /\ mem[place].kind = "guard"
    THEN add_unlock_guard(mxs[get_linked_lock_guard(mem, place) + 1], transition_drop, n)
    ELSE n

\* MirFunction::drop: the drop transition between the block and its target,
\* with an unwind arc when the terminator names an unwind block.
function_drop(f, target, unwind, n) ==
    LET t == drop_transition_label(f.name, f.block)
        n1 == add_transition(add_place(n, target), t)
        n2 == add_arc_place_transition(n1, f.cur, t)
        n3 == add_arc_transition_place(n2, t, target)
        n4 == add_arc_transition_place(add_place(n3, unwind), t, unwind)
    IN  [net |-> IF unwind # NoPlace THEN n4 ELSE n3, transition |-> t]

\* The Drop arm of visit_terminator consulting the mutex manager with the
\* transition of the previous drop instead of the one just emitted.
visit_drop_stale_transition(place, target, unwind, f, mem, mxs, n) ==
    LET dropped == function_drop(f, target, unwind, n)
        stale == drop_transition_label(f.name, IF f.block > 0 THEN f.block - 1 ELSE 0)
    IN  handle_lock_guard_drop(place, stale, mem, mxs, dropped.net)

\* The Drop arm of visit_terminator: the drop transition, then the mutex
\* manager is consulted with it and the memory of the current function.
visit_drop(place, target, unwind, f, mem, mxs, n) ==
    LET dropped == function_drop(f, target, unwind, n)
    IN  handle_lock_guard_drop(place, dropped.transition, mem, mxs, dropped.net)

\* Terminator Drop { place, target, unwind: None }.
VisitDrop(place) ==
    /\ CanVisit
    /\ place \in function.guards
    /\ LET target == block_place_label(function.name, function.block + 1)
       IN  /\ net' = visit_drop(place, target, NoPlace, function, memory, mutexes, net)
           /\ function' = [function EXCEPT !.cur = target, !.block = @ + 1,
                                           !.guards = @ \ {place}]
    /\ program' = Append(program, Terminator("Drop", <<place>>, CallPlaces(FALSE)))
    /\ Unchanged_run
    /\ UNCHANGED <<condvars, wait_counter, notify_one_counter, mutexes, lock_counter,
                   threads, join_counter, memory, pending>>

\* The slot of a local that denotes no synchronisation handle.
PlainSlot == 0

\* Terminator Drop { place, target, unwind } of any local, with or without
\* an unwind block: a live lock guard, or a local that is no lock guard (at
\* most MaxPlainDrops of these).
VisitDropOf(place, unwind) ==
    /\ CanVisit
    /\ \/ place \in function.guards
       \/ /\ place \notin SlotsOf(memory, "guard")
          /\ Cardinality({i \in DOMAIN program :
                            /\ program[i].kind = "Drop"
                            /\ program[i].args[1] \notin SlotsOf(memory, "guard")})
                < MaxPlainDrops
    /\ LET fp == CallPlaces(unwind)
       IN  /\ net' = visit_drop(place, fp.end_place, fp.cleanup_place, function, memory,
                                mutexes, net)
           /\ function' = [function EXCEPT !.cur = fp.end_place, !.block = @ + 1,
                                           !.guards = @ \ {place},
                                           !.cleanup_used = @ \/ unwind]
    /\ program' = Append(program, Terminator("Drop", <<place>>, CallPlaces(unwind)))
    /\ Unchanged_run
    /\ UNCHANGED <<condvars, wait_counter, notify_one_counter, mutexes, lock_counter,
                   threads, join_counter, memory, pending>>

\* MirFunction::return_statement: block place -> return transition -> end place.
return_statement(f, n) ==
    LET t == return_transition_label(f.name)
        n1 == add_transition(n, t)
        n2 == add_arc_place_transition(n1, f.cur, t)
    IN  add_arc_transition_place(n2, t, f.end_place)

\* Terminator Return: the last block of the function in program order, save
\* for the cleanup block when a call named one.
VisitReturn ==
    /\ CanVisit
    /\ net' = return_statement(function, net)
    /\ function' = [function EXCEPT !.pc = IF function.cleanup_used THEN "cleanup" ELSE "done"]
    /\ program' = Append(program, Terminator("Return", <<>>,
                                FunctionPlaces(function.cur, function.end_place, NoPlace)))
    /\ Unchanged_run
    /\ UNCHANGED <<condvars, wait_counter, notify_one_counter, mutexes, lock_counter,
                   threads, join_counter, memory, pending>>

\* MirFunction::unwind: block place -> unwind transition -> PROGRAM_PANIC.
function_unwind(f, program_panic, n) ==
    LET t == unwind_transition_label(f.name)
        n1 == add_transition(n, t)
        n2 == add_arc_place_transition(n1, cleanup_place_label(f.name), t)
    IN  add_arc_transition_place(n2, t, program_panic)

\* MirFunction::unreachable: block place -> unreachable transition -> PROGRAM_END.
function_unreachable(f, program_end, n) ==
    LET t == unreachable_transition_label(f.name, f.block)
        n1 == add_transition(n, t)
        n2 == add_arc_place_transition(n1, f.cur, t)
    IN  add_arc_transition_place(n2, t, program_end)

\* visit_terminator handing the wrong program place to each handler.
visit_exit_terminator_swapped(kind, f, n) ==
    IF kind \in {"Resume", "Abort"}
    THEN function_unwind(f, PROGRAM_END, n)
    ELSE function_unreachable(f, PROGRAM_PANIC, n)

\* The arms of visit_terminator for Resume | Abort and for Unreachable.
visit_exit_terminator(kind, f, n) ==
    IF kind \in {"Resume", "Abort"}
    THEN function_unwind(f, PROGRAM_PANIC, n)
    ELSE function_unreachable(f, PROGRAM_END, n)

\* Terminator Resume of the cleanup block.
VisitResume ==
    /\ phase = "translate"
    /\ function.pc = "cleanup"
    /\ net' = visit_exit_terminator("Resume", function, net)
    /\ function' = [function EXCEPT !.pc = "done"]
    /\ program' = Append(program, Terminator("Resume", <<>>,
                                FunctionPlaces(cleanup_place_label(function.name),
                                               PROGRAM_PANIC, NoPlace)))
    /\ Unchanged_run
    /\ UNCHANGED <<condvars, wait_counter, notify_one_counter, mutexes, lock_counter,
                   threads, join_counter, memory, pending>>

\* Terminator Abort of the cleanup block.
VisitAbort ==
    /\ phase = "translate"
    /\ function.pc = "cleanup"
    /\ net' = visit_exit_terminator("Abort", function, net)
    /\ function' = [function EXCEPT !.pc = "done"]
    /\ program' = Append(program, Terminator("Abort", <<>>,
                                FunctionPlaces(cleanup_place_label(function.name),
                                               PROGRAM_PANIC, NoPlace)))
    /\ Unchanged_run
    /\ UNCHANGED <<condvars, wait_counter, notify_one_counter, mutexes, lock_counter,
                   threads, join_counter, memory, pending>>

\* Terminator Unreachable: the last block of the function in program order.
VisitUnreachable ==
    /\ CanVisit
    /\ net' = visit_exit_terminator("Unreachable", function, net)
    /\ function' = [function EXCEPT !.pc = IF function.cleanup_used THEN "cleanup" ELSE "done"]
    /\ program' = Append(program, Terminator("Unreachable", <<>>,
                                FunctionPlaces(function.cur, PROGRAM_END, NoPlace)))
    /\ Unchanged_run
    /\ UNCHANGED <<condvars, wait_counter, notify_one_counter, mutexes, lock_counter,
                   threads, join_counter, memory, pending>>

\* The body of the next spawned thread is translated once the current
\* function is finished: from the thread's start place to its end place.
TranslateThread ==
    /\ phase = "translate"
    /\ function.pc = "done"
    /\ pending # <<>>
    /\ LET index == Head(pending)
       IN  function' = NewFunction(closure_name(index), threads[index + 1].start_place,
                                   threads[index + 1].end_place)
    /\ pending' = Tail(pending)
    /\ Unchanged_run
    /\ UNCHANGED <<net, condvars, wait_counter, notify_one_counter, mutexes, lock_counter,
                   threads, join_counter, memory, program>>

(***************************************************************************)
(* The finished net: its initial marking and the firing rule.              *)
(***************************************************************************)
Finish ==
    /\ phase = "translate"
    /\ function.pc = "done"
    /\ pending = <<>>
    /\ phase' = "run"
    /\ marking' = net.tokens
    /\ UNCHANGED <<net, condvars, wait_counter, notify_one_counter, mutexes, lock_counter,
                   threads, join_counter, memory, function, pending, program, fired,
                   input, result>>

\* The foreign functions (no MIR body, not a synchronisation primitive) that
\* the programs call.
ForeignFunctions == {"std::mem::drop", "std::process::id"}

\* Call of a foreign function: the opaque call fragment, labelled after the
\* name of the callee.
CallForeign(function_name, cleanup) ==
    /\ CanCall
    /\ LET fp == CallPlaces(cleanup)
           call == call_foreign_function(fp, foreign_call_transition_labels(function_name),
                                         WithPlaces(net, fp))
       IN  /\ net' = call.net
           /\ function' = Advance(function, fp)
    /\ program' = Append(program, Terminator(function_name, <<>>, CallPlaces(cleanup)))
    /\ Unchanged_run
    /\ UNCHANGED <<condvars, wait_counter, notify_one_counter, mutexes, lock_counter,
                   threads, join_counter, memory, pending>>

Preset(n, t) == {a \in DOMAIN n.pt : a[2] = t}

Postset(n, t) == {a \in DOMAIN n.tp : a[1] = t}

Enabled(n, m, t) == \A a \in Preset(n, t) : m[a[1]] >= n.pt[a]

Consumed(n, t, p) == IF <<p, t>> \in DOMAIN n.pt THEN n.pt[<<p, t>>] ELSE 0

Produced(n, t, p) == IF <<t, p>> \in DOMAIN n.tp THEN n.tp[<<t, p>>] ELSE 0

FireResult(n, m, t) == [p \in DOMAIN m |-> m[p] - Consumed(n, t, p) + Produced(n, t, p)]

Fire(t) ==
    /\ phase = "run"
    /\ Enabled(net, marking, t)
    /\ marking' = FireResult(net, marking, t)
    /\ fired' = fired \cup {t}
    /\ UNCHANGED <<net, condvars, wait_counter, notify_one_counter, mutexes, lock_counter,
                   threads, join_counter, memory, function, pending, program, phase,
                   input, result>>

\* Calls of notify_one and wait are taken with and without a cleanup block;
\* the other calls are taken without one.
Next ==
    \/ CallCondvarNew
    \/ \E self_ref \in DOMAIN memory, cleanup \in BOOLEAN : CallNotifyOne(self_ref, cleanup)
    \/ \E self_ref \in DOMAIN memory, lock_guard \in DOMAIN memory, cleanup \in BOOLEAN :
            CallWait(self_ref, lock_guard, cleanup)
    \/ CallMutexNew
    \/ \E self_ref \in DOMAIN memory : CallLock(self_ref)
    \/ CallSpawn
    \/ \E self_ref \in DOMAIN memory : CallJoin(self_ref)
    \/ \E place \in DOMAIN memory : VisitDrop(place)
    \/ VisitReturn
    \/ VisitResume
    \/ TranslateThread
    \/ Finish
    \/ \E t \in net.transitions : Fire(t)

\* The firing of the signal_transition of the condvar of index i.
FireSignal(i) == Fire(transition_labels(i)[2])

Spec == Init /\ [][Next]_vars

(***************************************************************************)
(* The walker on programs that also call foreign functions: the control    *)
(* flow of one function with mutexes, of at most MaxWalked terminators     *)
(* before its last block, followed by the token game.                      *)
(***************************************************************************)
CanWalk == Len(program) < MaxWalked

WalkNext ==
    \/ \E function_name \in ForeignFunctions, cleanup \in BOOLEAN :
            CanWalk /\ CallForeign(function_name, cleanup)
    \/ CanWalk /\ CallMutexNew
    \/ \E self_ref \in DOMAIN memory : CanWalk /\ CallLock(self_ref)
    \/ \E place \in DOMAIN memory \cup {PlainSlot}, unwind \in BOOLEAN :
            CanWalk /\ VisitDropOf(place, unwind)
    \/ VisitReturn
    \/ VisitUnreachable
    \/ VisitResume
    \/ VisitAbort
    \/ Finish
    \/ \E t \in net.transitions : Fire(t)

WalkSpec == Init /\ [][WalkNext]_vars

(***************************************************************************)
(* Failures.  Every failure of the translator is a panic; what tells the   *)
(* classes apart is the macro that raised it and the text of its message:  *)
(* unimplemented! marks an unsupported construct, a message that starts    *)
(* with "BUG:" marks a broken internal invariant.                          *)
(***************************************************************************)
Failure(macro, bug_prefix, raised_by) ==
    [outcome |-> "failure", macro |-> macro, bug_prefix |-> bug_prefix, raised_by |-> raised_by]

IsFailure(r) == r.outcome = "failure"

FailureClass(r) ==
    IF r.macro = "unimplemented" THEN "unsupported"
    ELSE IF r.bug_prefix THEN "bug"
    ELSE "panic"

(***************************************************************************)
(* Resolution of the callee of a Call and dispatch on the terminator kind. *)
(***************************************************************************)
\* Types of callee operands: function definitions and closures carry the
\* identity of their definition.
DefIds == {"main::f", "main::{closure#0}"}

CalleeTypes ==
    [kind : {"FnDef", "Closure"}, def_id : DefIds]
        \cup [kind : {"FnPtr", "Adt", "Ref"}, def_id : {"none"}]

extract_def_id_of_called_function_from_operand(operand, local_decls) ==
    LET function_type == IF operand.form \in {"Copy", "Move"}
                         THEN local_decls[operand.place]
                         ELSE operand.ty
    IN  IF function_type.kind = "FnPtr"
        THEN Failure("unimplemented", FALSE, "extract_def_id_of_called_function_from_operand")
        ELSE IF function_type.kind \in {"FnDef", "Closure"}
        THEN [outcome |-> "def_id", def_id |-> function_type.def_id]
        ELSE Failure("panic", FALSE, "extract_def_id_of_called_function_from_operand")

\* Translator::call_function begins by resolving the callee.
call_function_callee(terminator) ==
    LET callee == extract_def_id_of_called_function_from_operand(terminator.func,
                                                                 terminator.local_decls)
    IN  IF IsFailure(callee) THEN callee
        ELSE [outcome |-> "handled", handler |-> "call_function", def_id |-> callee.def_id]

Handled(handler) == [outcome |-> "handled", handler |-> handler, def_id |-> "none"]

TerminatorKinds ==
    {"Goto", "SwitchInt", "Resume", "Abort", "Return", "Unreachable", "Drop",
     "DropAndReplace", "Call", "Assert", "Yield", "GeneratorDrop", "FalseEdge",
     "FalseUnwind", "InlineAsm"}

\* visit_terminator translating DropAndReplace like Drop.
visit_terminator_replacing_as_drop(terminator) ==
    LET kind == terminator.kind
    IN  CASE kind = "Goto" -> Handled("goto")
          [] kind = "SwitchInt" -> Handled("switch_int")
          [] kind \in {"Resume", "Abort"} -> Handled("unwind")
          [] kind = "Return" -> Handled("return_statement")
          [] kind = "Unreachable" -> Handled("unreachable")
          [] kind \in {"Drop", "DropAndReplace"} -> Handled("drop")
          [] kind = "Call" -> call_function_callee(terminator)
          [] kind = "Assert" -> Handled("assert")
          [] OTHER -> Failure("unimplemented", FALSE, "visit_terminator")

\* Translator::visit_terminator: the handler the terminator is handed to.
visit_terminator(terminator) ==
    LET kind == terminator.kind
    IN  CASE kind = "Goto" -> Handled("goto")
          [] kind = "SwitchInt" -> Handled("switch_int")
          [] kind \in {"Resume", "Abort"} -> Handled("unwind")
          [] kind = "Return" -> Handled("return_statement")
          [] kind = "Unreachable" -> Handled("unreachable")
          [] kind = "Drop" -> Handled("drop")
          [] kind = "DropAndReplace" -> Failure("unimplemented", FALSE, "visit_terminator")
          [] kind = "Call" -> call_function_callee(terminator)
          [] kind = "Assert" -> Handled("assert")
          [] kind \in {"Yield", "GeneratorDrop", "FalseEdge", "FalseUnwind", "InlineAsm"} ->
                Failure("unimplemented", FALSE, "visit_terminator")

\* The terminators handed to visit_terminator: any kind, and for a Call the
\* callee operand with the declared types of the caller's locals.
CalleeOperands ==
    [form : {"Copy", "Move"}, place : {1, 2}, ty : {[kind |-> "Adt", def_id |-> "none"]}]
        \cup [form : {"Constant"}, place : {0}, ty : CalleeTypes]

TerminatorInputs ==
    [kind : TerminatorKinds \ {"Call"}, func : {NoValue}, local_decls : {NoValue}]
        \cup [kind : {"Call"}, func : CalleeOperands, local_decls : [{1, 2} -> CalleeTypes]]

DispatchInit == Fresh /\ input \in TerminatorInputs /\ result = NoValue

VisitTerminator ==
    /\ result = NoValue
    /\ result' = visit_terminator(input)
    /\ UNCHANGED <<net, condvars, wait_counter, notify_one_counter, mutexes, lock_counter,
                   threads, join_counter, memory, function, pending, program, phase,
                   marking, fired, input>>

DispatchNext == VisitTerminator

DispatchSpec == DispatchInit /\ [][DispatchNext]_vars

(***************************************************************************)
(* Linking of places to synchronisation values: the helpers of sync.rs     *)
(* over the memory of one function.                                        *)
(***************************************************************************)
MaxOperands == 3
MaxField == 1

\* Projection elements and places (a local with a list of projections).
Deref == [elem |-> "Deref", number |-> 0]

Field(number) == [elem |-> "Field", number |-> number]

Place(local, projection) == [local |-> local, projection |-> projection]

Local(local) == Place(local, <<>>)

\* Operands of an rvalue or of a call.
Move(place) == [operand |-> "Move", place |-> place]

ConstantOperand == [operand |-> "Constant", place |-> Local(0)]

\* Type strings, as the sequence of their segments: a pattern of the
\* translator is a substring iff it is one of the segments.
TyMutex == <<"std::sync::Mutex<", "i32", ">">>

TyMutexGuard == <<"std::sync::MutexGuard<", "'_, ", "i32", ">">>

TyCondvar == <<"std::sync::Condvar">>

TyRefTuple == <<"&", "(", "std::sync::Mutex<", "i32", ">", ", ", "std::sync::Condvar", ")">>

check_substring_in_place_type(place, expected, local_decls) ==
    \E i \in DOMAIN local_decls[place] : local_decls[place][i] = expected

check_if_sync_variable(place, local_decls) ==
    \/ check_substring_in_place_type(place, "std::sync::MutexGuard<", local_decls)
    \/ check_substring_in_place_type(place, "std::sync::Mutex<", local_decls)
    \/ check_substring_in_place_type(place, "std::thread::JoinHandle<", local_decls)
    \/ check_substring_in_place_type(place, "std::sync::Condvar", local_decls)

\* Values of the memory: a handle, or an aggregate of values.
Handle(kind, ref) == [kind |-> kind, ref |-> ref, fields |-> <<>>]

Aggregate(fields) == [kind |-> "aggregate", ref |-> 0, fields |-> fields]

Ok(mem) == [outcome |-> "ok", memory |-> mem]

Put(mem, place, value) ==
    [p \in DOMAIN mem \cup {place} |-> IF p = place THEN value ELSE mem[p]]

link_place_to_same_value(mem, place_to_link, place_linked) ==
    IF place_linked \in DOMAIN mem
    THEN Ok(Put(mem, place_to_link, mem[place_linked]))
    ELSE Failure("panic", TRUE, "Memory::link_place_to_same_value")

link_field_in_aggregate(mem, place_to_link, place_linked, field_number) ==
    IF /\ place_linked \in DOMAIN mem
       /\ mem[place_linked].kind = "aggregate"
       /\ field_number + 1 \in DOMAIN mem[place_linked].fields
    THEN Ok(Put(mem, place_to_link, mem[place_linked].fields[field_number + 1]))
    ELSE Failure("panic", TRUE, "Memory::link_field_in_aggregate")

create_aggregate(mem, place, places) ==
    IF \A i \in DOMAIN places : places[i] \in DOMAIN mem
    THEN Ok(Put(mem, place, Aggregate([i \in DOMAIN places |-> mem[places[i]]])))
    ELSE Failure("panic", TRUE, "Memory::create_aggregate")

None == [some |-> FALSE, place |-> Local(0)]

Some(place) == [some |-> TRUE, place |-> place]

extract_nth_argument_as_place(args, n) ==
    IF n + 1 \in DOMAIN args /\ args[n + 1].operand # "Constant"
    THEN Some(args[n + 1].place)
    ELSE None

handle_aggregate_assignment(place, operands, mem, local_decls) ==
    LET with_sync == SelectSeq(operands, LAMBDA operand :
                         /\ operand.operand # "Constant"
                         /\ check_if_sync_variable(operand.place, local_decls))
        places_with_sync_variables == [i \in DOMAIN with_sync |-> with_sync[i].place]
    IN  IF places_with_sync_variables # <<>>
        THEN create_aggregate(mem, place, places_with_sync_variables)
        ELSE Ok(mem)

generalized_link_place_if_sync_variable(place_to_link, place_linked, place_to_check_type, mem, local_decls) ==
    LET link_if(r, expected) ==
            IF IsFailure(r) \/ ~check_substring_in_place_type(place_to_check_type, expected, local_decls)
            THEN r
            ELSE link_place_to_same_value(r.memory, place_to_link, place_linked)
    IN  link_if(link_if(link_if(link_if(Ok(mem),
            "std::sync::MutexGuard<"), "std::sync::Mutex<"),
            "std::thread::JoinHandle<"), "std::sync::Condvar")

link_if_sync_variable_first_field(place_to_link, place_linked, mem, local_decls) ==
    IF place_linked.projection = <<>>
    THEN generalized_link_place_if_sync_variable(place_to_link, place_linked, place_linked, mem, local_decls)
    ELSE IF ~check_if_sync_variable(place_to_link, local_decls)
    THEN Ok(mem)
    ELSE LET projection == place_linked.projection
             fields == {i \in DOMAIN projection : projection[i].elem = "Field"}
             has_deref == \E i \in DOMAIN projection : projection[i] = Deref
         IN  IF fields = {}
             THEN Failure("expect", TRUE, "link_if_sync_variable")
             ELSE LET first == CHOOSE i \in fields : \A j \in fields : i <= j
                      field_number == projection[first].number
                  IN  IF has_deref
                      THEN link_field_in_aggregate(mem, place_to_link, Local(place_linked.local), field_number)
                      ELSE link_field_in_aggregate(mem, place_to_link, place_linked, field_number)

link_if_sync_variable(place_to_link, place_linked, mem, local_decls) ==
    IF place_linked.projection = <<>>
    THEN generalized_link_place_if_sync_variable(place_to_link, place_linked, place_linked, mem, local_decls)
    ELSE IF ~check_if_sync_variable(place_to_link, local_decls)
    THEN Ok(mem)
    ELSE LET projection == place_linked.projection
             fields == {i \in DOMAIN projection : projection[i].elem = "Field"}
             has_deref == \E i \in DOMAIN projection : projection[i] = Deref
         IN  IF fields = {}
             THEN Failure("expect", TRUE, "link_if_sync_variable")
             ELSE LET last == CHOOSE i \in fields : \A j \in fields : j <= i
                      field_number == projection[last].number
                  IN  IF has_deref
                      THEN link_field_in_aggregate(mem, place_to_link, Local(place_linked.local), field_number)
                      ELSE link_field_in_aggregate(mem, place_to_link, place_linked, field_number)

link_return_value_if_sync_variable(args, return_value, mem, local_decls) ==
    LET first_argument == extract_nth_argument_as_place(args, 0)
    IN  IF ~first_argument.some
        THEN Ok(mem)
        ELSE link_if_sync_variable(return_value, first_argument.place, mem, local_decls)

\* The inputs: a function whose local _1 is a mutex, _2 a condition
\* variable, _3 an integer, _4 the destination and _5 a source whose
\* projections are read.
Projections ==
    {<<>>, <<Deref>>, <<Deref, Deref>>} \cup
    {<<Field(k)>> : k \in 0..MaxField} \cup
    {<<Deref, Field(k)>> : k \in 0..MaxField} \cup
    {<<Field(j), Field(k)>> : j, k \in 0..MaxField}

BaseMemory ==
    [p \in {Local(1), Local(2)} |->
        IF p = Local(1) THEN Handle("mutex", 0) ELSE Handle("condvar", 0)]

BaseLocalDecls ==
    [p \in {Local(1), Local(2), Local(3)} |->
        IF p = Local(1) THEN TyMutex ELSE IF p = Local(2) THEN TyCondvar ELSE <<"i32">>]

AggregateOperands ==
    UNION {[1..n -> {ConstantOperand, Move(Local(1)), Move(Local(2)), [operand |-> "Copy", place |-> Local(3)]}] : n \in 0..MaxOperands}

AggregateInputs ==
    {[op |-> "aggregate", place |-> Local(4), operands |-> operands,
      memory |-> BaseMemory, local_decls |-> Put(BaseLocalDecls, Local(4), TyRefTuple)] :
        operands \in AggregateOperands}

\* The fields 0..MaxField of an aggregate, of alternating kinds.
HandlesFrom(even, odd) ==
    [i \in 1..(MaxField + 1) |-> Handle(IF i % 2 = 1 THEN even ELSE odd, 0)]

\* The memory before a link: a source without projection denotes the handle
\* of its type; below a projected source, the base slot and the projected
\* place may each hold an aggregate.
SourceMemory(source, source_ty, linked) ==
    IF source.projection = <<>>
    THEN IF source_ty \in {<<"i32">>, <<"&", "i32">>} THEN BaseMemory
         ELSE Put(BaseMemory, source, Handle(IF source_ty = TyMutex THEN "mutex" ELSE "condvar", 0))
    ELSE IF ~linked THEN BaseMemory
    ELSE Put(Put(BaseMemory, Local(source.local), Aggregate(HandlesFrom("mutex", "condvar"))),
             source, Aggregate(HandlesFrom("condvar", "mutex")))

SourceLocalDecls(source, source_ty, base_ty, destination_ty) ==
    Put(Put(Put(BaseLocalDecls, Local(source.local), base_ty), source, source_ty),
        Local(4), destination_ty)

Sources ==
    {[place |-> Place(5, projection), memory |-> SourceMemory(Place(5, projection), source_ty, linked),
      local_decls |-> SourceLocalDecls(Place(5, projection), source_ty, base_ty, destination_ty)] :
        projection \in Projections, source_ty \in {<<"i32">>, TyMutex, TyCondvar},
        base_ty \in {<<"&", "i32">>, TyRefTuple}, destination_ty \in {<<"i32">>, TyMutex, TyMutexGuard},
        linked \in BOOLEAN}

LinkInputs ==
    {[op |-> "link", place |-> Local(4), operands |-> <<Move(source.place)>>,
      memory |-> source.memory, local_decls |-> source.local_decls] : source \in Sources}

\* The argument lists of a call: no argument, or a first argument that is a
\* constant or a place, followed or not by a mutex.
Arguments(first, place, rest) ==
    IF first = "none" THEN <<>>
    ELSE (IF first = "constant" THEN <<ConstantOperand>> ELSE <<Move(place)>>) \o rest

LinkReturnInputs ==
    {[op |-> "link_return", place |-> Local(4),
      operands |-> Arguments(first, source.place, rest),
      memory |-> source.memory, local_decls |-> source.local_decls] :
        source \in Sources, first \in {"none", "constant", "place"},
        rest \in {<<>>, <<Move(Local(1))>>}}

LinkInit ==
    /\ Fresh
    /\ input \in AggregateInputs \cup LinkInputs \cup LinkReturnInputs
    /\ result = NoValue

Unchanged_link ==
    UNCHANGED <<net, condvars, wait_counter, notify_one_counter, mutexes, lock_counter,
                threads, join_counter, memory, function, pending, program, phase,
                marking, fired, input>>

\* An assignment `place = Aggregate(operands)`.
HandleAggregateAssignment ==
    /\ result = NoValue
    /\ input.op = "aggregate"
    /\ result' = handle_aggregate_assignment(input.place, input.operands, input.memory, input.local_decls)
    /\ Unchanged_link

\* An assignment `place = operand`, `place = &operand`.
LinkIfSyncVariable ==
    /\ result = NoValue
    /\ input.op = "link"
    /\ result' = link_if_sync_variable(input.place, input.operands[1].place, input.memory, input.local_decls)
    /\ Unchanged_link

\* A call `place = f(operands)` of a function that is not given a net of
\* its own.
LinkReturnValueIfSyncVariable ==
    /\ result = NoValue
    /\ input.op = "link_return"
    /\ result' = link_return_value_if_sync_variable(input.operands, input.place, input.memory, input.local_decls)
    /\ Unchanged_link

LinkNext ==
    \/ HandleAggregateAssignment
    \/ LinkIfSyncVariable
    \/ LinkReturnValueIfSyncVariable

LinkSpec == LinkInit /\ [][LinkNext]_vars

(***************************************************************************)
(* The helpers on names: the test of a type string against a generic type  *)
(* (utils.rs) and the dispatch of a supported function on its name         *)
(* (sync.rs).                                                              *)
(***************************************************************************)
MaxNesting == 2

\* A type string as the sequence of its angle brackets and of the runs of
\* characters between them.
Generic(name, argument) == <<name, "<">> \o argument \o <<">">>

\* str::split(&['<', '>']), with the part read so far.
RECURSIVE split_from(_, _)
split_from(string, part) ==
    IF string = <<>> THEN <<part>>
    ELSE IF Head(string) \in {"<", ">"} THEN <<part>> \o split_from(Tail(string), "")
    ELSE split_from(Tail(string), part \o Head(string))

is_place_ty_with_concrete_type(ty_string, expected_ty_str) ==
    LET expected_parts == split_from(expected_ty_str, "")
        parts == split_from(ty_string, "")
    IN  IF Len(parts) # Len(expected_parts) THEN FALSE
        ELSE \A i \in DOMAIN parts :
                IF expected_parts[i] = "T" THEN parts[i] # "T"
                ELSE parts[i] = expected_parts[i]

\* The type arguments with at most `depth` generic types around a parameter
\* or a primitive type.
RECURSIVE TypeArguments(_)
TypeArguments(depth) ==
    IF depth = 0 THEN {<<"T">>, <<"i32">>, <<"u8">>}
    ELSE TypeArguments(depth - 1) \cup
         {Generic(wrapper, argument) : wrapper \in {"std::vec::Vec", "std::option::Option"}, argument \in TypeArguments(depth - 1)}

TypeStrings ==
    {<<name>> : name \in {"std::sync::Mutex", "std::sync::Arc", "std::sync::Condvar"}} \cup
    {Generic(name, argument) : name \in {"std::sync::Mutex", "std::sync::Arc", "std::sync::Condvar"}, argument \in TypeArguments(MaxNesting)}

SupportedFunctions ==
    {"std::sync::Condvar::new", "std::sync::Condvar::notify_one", "std::sync::Condvar::wait",
     "std::sync::Condvar::wait_while", "std::sync::Mutex::<T>::lock",
     "std::sync::Mutex::<T>::new", "std::thread::spawn", "std::thread::JoinHandle::<T>::join"}

is_supported_function(function_name) == function_name \in SupportedFunctions

\* The outcome of a call handler: the handler that ran and whether a
\* postprocessing task came back.
Called(handler, task) == [outcome |-> "ok", handler |-> handler, task |-> task]

call_function(function_name) ==
    IF function_name = "std::sync::Condvar::new" THEN Called("condvar::call_new", FALSE)
    ELSE IF function_name = "std::sync::Condvar::notify_one"
    THEN Called("condvar::call_notify_one", FALSE)
    ELSE IF function_name \in {"std::sync::Condvar::wait", "std::sync::Condvar::wait_while"}
    THEN Called("condvar::call_wait", TRUE)
    ELSE IF function_name = "std::sync::Mutex::<T>::lock" THEN Called("mutex::call_lock", FALSE)
    ELSE IF function_name = "std::sync::Mutex::<T>::new" THEN Called("mutex::call_new", TRUE)
    ELSE IF function_name = "std::thread::JoinHandle::<T>::join"
    THEN Called("thread::call_join", FALSE)
    ELSE Failure("panic", TRUE, "call_function")

NameInputs ==
    {[op |-> "is_place_ty_with_concrete_type", ty_string |-> ty_string,
      expected_ty_str |-> expected_ty_str, function_name |-> ""] :
        ty_string \in TypeStrings, expected_ty_str \in {Generic("std::sync::Mutex", <<"T">>), Generic("std::sync::Arc", <<"T">>)}} \cup
    {[op |-> "call_function", ty_string |-> <<>>, expected_ty_str |-> <<>>,
      function_name |-> function_name] : function_name \in SupportedFunctions \cup ForeignFunctions \cup
                           {"std::sync::Condvar::notify_all", "main::f"}}

NameInit == Fresh /\ input \in NameInputs /\ result = NoValue

IsPlaceTyWithConcreteType ==
    /\ result = NoValue
    /\ input.op = "is_place_ty_with_concrete_type"
    /\ result' = [value |-> is_place_ty_with_concrete_type(input.ty_string, input.expected_ty_str)]
    /\ Unchanged_link

\* The call of a function that is_supported_function accepts or not.
CallFunction ==
    /\ result = NoValue
    /\ input.op = "call_function"
    /\ result' = [supported |-> is_supported_function(input.function_name),
                  call |-> call_function(input.function_name)]
    /\ Unchanged_link

NameNext == IsPlaceTyWithConcreteType \/ CallFunction

NameSpec == NameInit /\ [][NameNext]_vars

(***************************************************************************)
(* The programs with several wait calls: main may call wait up to its      *)
(* MaxWaitCalls-th call, next to the calls that create and use a mutex, a  *)
(* condition variable and a thread.                                        *)
(***************************************************************************)
MaxWaitCalls == 6

WaitNext ==
    \/ CallCondvarNew
    \/ CallMutexNew
    \/ CallSpawn
    \/ \E self_ref \in DOMAIN memory : CallLock(self_ref)
    \/ \E self_ref \in DOMAIN memory : CallNotifyOne(self_ref, FALSE)
    \/ \E self_ref \in DOMAIN memory, lock_guard \in DOMAIN memory, cleanup \in BOOLEAN :
            function.name = "main" /\ function.calls < MaxWaitCalls /\
                WaitCall(self_ref, lock_guard, cleanup)
    \/ VisitReturn
    \/ VisitResume
    \/ TranslateThread
    \/ Finish
    \/ \E t \in net.transitions : Fire(t)

WaitSpec == Init /\ [][WaitNext]_vars

\* The token game of the programs with several wait calls, with weak
\* fairness on the two transitions of every condvar.
FairWaitSpec ==
    WaitSpec /\ \A i \in 0..(MaxCondvars - 1) : WF_vars(FireSignal(i)) /\ WF_vars(Fire(transition_labels(i)[1]))

(***************************************************************************)
(* The translation of the programs with several condition variables: up to *)
(* MaxRegistered calls of Condvar::new, next to the calls that use them.   *)
(***************************************************************************)
MaxRegistered == 3

RegistryNext ==
    \/ Len(condvars) < MaxRegistered /\ CondvarNewCall
    \/ \E self_ref \in DOMAIN memory, cleanup \in BOOLEAN : CallNotifyOne(self_ref, cleanup)
    \/ CallMutexNew
    \/ \E self_ref \in DOMAIN memory : CallLock(self_ref)
    \/ \E self_ref \in DOMAIN memory, lock_guard \in DOMAIN memory, cleanup \in BOOLEAN :
            CallWait(self_ref, lock_guard, cleanup)
    \/ VisitReturn
    \/ Finish
    \/ \E t \in net.transitions : Fire(t)

RegistrySpec == Init /\ [][RegistryNext]_vars

(***************************************************************************)
(* Vocabulary of the properties.                                           *)
(***************************************************************************)
\* The terminators of the program that call `kind`.
CallsOf(kind) == {i \in DOMAIN program : program[i].kind = kind}

\* The zero-based position of terminator i among the terminators of its kind.
KindIndex(i) == Cardinality({j \in 1..(i - 1) : program[j].kind = program[i].kind})

Weights(arcs) == {arcs[a] : a \in DOMAIN arcs}

CondvarPlaces(cv) ==
    {cv.lost_signal_possible, cv.signal_input, cv.wait_input, cv.signal_output}

\* The transitions with an arc into wait_input: the wait-start transitions.
WaitStartsOf(cv) == {a[1] : a \in {b \in DOMAIN net.tp : b[2] = cv.wait_input}}

\* The arcs of `after` that `before` does not hold.
NewArcs(before, after) == DOMAIN after \ DOMAIN before

ArcsKept(before, after) == \A a \in DOMAIN before : a \in DOMAIN after /\ after[a] = before[a]

(***************************************************************************)
(* C1: the step that creates the condvar of index i adds to the net        *)
(* exactly the four places lost_signal_possible (1 token), signal_input,   *)
(* wait_input, signal_output (0 tokens) and the two transitions, with      *)
(* exactly the arcs, all of weight 1:                                      *)
(*   lost_signal_transition: {lost_signal_possible, signal_input} ->       *)
(*                           {lost_signal_possible}                         *)
(*   signal_transition: {signal_input, wait_input} ->                      *)
(*                      {signal_output, lost_signal_possible}               *)
(* (next to the call fragment of the Condvar::new call itself).            *)
(***************************************************************************)
C1_GadgetOfStep ==
    LET i == Len(condvars)
        cv == condvars'[i + 1]
        lsp == cv.lost_signal_possible
        si == cv.signal_input
        wi == cv.wait_input
        so == cv.signal_output
        lost == transition_labels(i)[1]
        sig == transition_labels(i)[2]
        call == program'[Len(program')]
        call_t == new_transition_labels(i)[1]
    IN  /\ Cardinality({lsp, si, wi, so}) = 4
        /\ lost # sig
        /\ {lsp, si, wi, so} \cap net.places = {}
        /\ net'.places = net.places \cup {call.places.end_place} \cup {lsp, si, wi, so}
        /\ {lost, sig} \cap net.transitions = {}
        /\ net'.transitions = net.transitions \cup {call_t} \cup {lost, sig}
        /\ net'.tokens[lsp] = 1
        /\ net'.tokens[si] = 0 /\ net'.tokens[wi] = 0 /\ net'.tokens[so] = 0
        /\ \A p \in net.places : net'.tokens[p] = net.tokens[p]
        /\ ArcsKept(net.pt, net'.pt) /\ ArcsKept(net.tp, net'.tp)
        /\ NewArcs(net.pt, net'.pt) =
               {<<call.places.start_place, call_t>>,
                <<lsp, lost>>, <<si, lost>>, <<si, sig>>, <<wi, sig>>}
        /\ NewArcs(net.tp, net'.tp) =
               {<<call_t, call.places.end_place>>,
                <<lost, lsp>>, <<sig, so>>, <<sig, lsp>>}
        /\ \A a \in NewArcs(net.pt, net'.pt) : net'.pt[a] = 1
        /\ \A a \in NewArcs(net.tp, net'.tp) : net'.tp[a] = 1

C1_CondvarNewAddsTheGadget ==
    [][Len(condvars') = Len(condvars) + 1 => C1_GadgetOfStep]_vars

\* A condvar was created and its gadget is in the net.
C1_Witness ==
    /\ Len(condvars) = 1
    /\ net.tokens[condvars[1].lost_signal_possible] = 1
    /\ transition_labels(0)[2] \in net.transitions

(***************************************************************************)
(* C2: condvar conflict.  While no wait-start transition of a condvar has  *)
(* fired, signal_transition is not enabled and has not fired, so a token   *)
(* that a notify_one put into signal_input can only be consumed by         *)
(* lost_signal_transition, which is then enabled; signal_output and        *)
(* wait_input hold no token.                                               *)
(***************************************************************************)
C2_NoSignalWithoutWait ==
    phase = "run" =>
        \A i \in 1..Len(condvars) :
            LET cv == condvars[i]
                tl == transition_labels(i - 1)
            IN  WaitStartsOf(cv) \cap fired = {} =>
                    /\ marking[cv.signal_output] = 0
                    /\ marking[cv.wait_input] = 0
                    /\ ~Enabled(net, marking, tl[2])
                    /\ tl[2] \notin fired
                    /\ marking[cv.signal_input] >= 1 => Enabled(net, marking, tl[1])

\* Two notify_one calls fired in a row, no wait-start fired, and both tokens
\* were consumed by lost_signal_transition.
C2_Witness ==
    /\ phase = "run"
    /\ Len(condvars) >= 1
    /\ WaitStartsOf(condvars[1]) \cap fired = {}
    /\ {notify_one_transition_labels(0)[1], notify_one_transition_labels(1)[1],
        transition_labels(0)[1]} \subseteq fired
    /\ marking[condvars[1].signal_input] = 0
    /\ marking[condvars[1].signal_output] = 0

\* The token game with weak fairness on every signal_transition.
LiveSpec == Spec /\ \A i \in 0..(MaxCondvars - 1) : WF_vars(FireSignal(i))

\* A waiter's token is in wait_input and a notify token is in signal_input.
WaiterNotified(i) ==
    /\ phase = "run"
    /\ i <= Len(condvars)
    /\ marking[condvars[i].wait_input] >= 1
    /\ marking[condvars[i].signal_input] >= 1

SignalDelivered(i) ==
    /\ phase = "run"
    /\ i <= Len(condvars)
    /\ marking[condvars[i].signal_output] >= 1

WAIT == "std::sync::Condvar::wait"
NOTIFY_ONE == "std::sync::Condvar::notify_one"
LOCK == "std::sync::Mutex::<T>::lock"
JOIN == "std::thread::JoinHandle::<T>::join"

AllCondvarPlaces(cvs) == UNION {CondvarPlaces(cvs[i]) : i \in DOMAIN cvs}

AllMutexPlaces == UNION {{mutexes[i].unlocked, mutexes[i].locked} : i \in DOMAIN mutexes}

\* The transitions of the wait call that is terminator i of the program.
WaitStart(i) == wait_transition_labels(KindIndex(i))[1]
WaitEnd(i) == wait_transition_labels(KindIndex(i))[2]
WaitUnwind(i) == wait_transition_labels(KindIndex(i))[3]

\* The condvar denoted by the first operand of call i, the mutex denoted by
\* the lock guard that is the second operand of wait call i.
CondvarOf(i) == condvars[memory[program[i].args[1]].ref + 1]
MutexOfGuard(i) == mutexes[memory[program[i].args[2]].ref + 1]

(***************************************************************************)
(* C4: the step that translates a wait call adds, on the places of the     *)
(* condvars, exactly three arcs of weight 1: lost_signal_possible ->       *)
(* wait-start, wait-start -> wait_input, signal_output -> wait-end, all on *)
(* the condvar of the call; the arcs, places, tokens and transitions that  *)
(* existed before are unchanged and no condvar is added.                   *)
(***************************************************************************)
C4_LinkOfStep ==
    LET call == program'[Len(program')]
        index == Cardinality(CallsOf(WAIT))
        ws == wait_transition_labels(index)[1]
        we == wait_transition_labels(index)[2]
        wu == wait_transition_labels(index)[3]
        cv == condvars[memory[call.args[1]].ref + 1]
        cps == AllCondvarPlaces(condvars)
    IN  /\ condvars' = condvars
        /\ ArcsKept(net.pt, net'.pt) /\ ArcsKept(net.tp, net'.tp)
        /\ {a \in NewArcs(net.pt, net'.pt) : a[1] \in cps} =
               {<<cv.lost_signal_possible, ws>>, <<cv.signal_output, we>>}
        /\ {a \in NewArcs(net.tp, net'.tp) : a[2] \in cps} = {<<ws, cv.wait_input>>}
        /\ \A a \in NewArcs(net.pt, net'.pt) : net'.pt[a] = 1
        /\ \A a \in NewArcs(net.tp, net'.tp) : net'.tp[a] = 1
        /\ net'.places \ net.places \subseteq {call.places.end_place, call.places.cleanup_place}
        /\ net'.transitions \ net.transitions \subseteq {ws, we, wu}
        /\ \A p \in net.places : net'.tokens[p] = net.tokens[p]
        /\ \A p \in net'.places \ net.places : net'.tokens[p] = 0

C4_WaitLinkAddsThreeArcs ==
    [][wait_counter' = wait_counter + 1 => C4_LinkOfStep]_vars

\* A wait call was translated and linked to its condvar.
C4_Witness ==
    /\ wait_counter = 1
    /\ \E i \in CallsOf(WAIT) :
          /\ <<CondvarOf(i).lost_signal_possible, WaitStart(i)>> \in DOMAIN net.pt
          /\ <<WaitStart(i), CondvarOf(i).wait_input>> \in DOMAIN net.tp
          /\ <<CondvarOf(i).signal_output, WaitEnd(i)>> \in DOMAIN net.pt

(***************************************************************************)
(* C5: for every wait call, with m the mutex denoted by the lock guard     *)
(* passed as second argument: the wait-start transition takes the token of *)
(* m.locked and puts one into m.unlocked, the wait-end transition takes    *)
(* the token of m.unlocked and puts one into m.locked, and these are the   *)
(* only arcs between the two transitions and the mutex places.  So firing  *)
(* wait-start releases m, firing wait-end re-acquires it, and wait-end is  *)
(* not enabled while m is locked.                                          *)
(***************************************************************************)
C5_WiredToGuardMutex(i) ==
    LET m == MutexOfGuard(i)
        ws == WaitStart(i)
        we == WaitEnd(i)
    IN  /\ {a \in DOMAIN net.pt : a[1] \in AllMutexPlaces /\ a[2] \in {ws, we}} =
               {<<m.locked, ws>>, <<m.unlocked, we>>}
        /\ {a \in DOMAIN net.tp : a[2] \in AllMutexPlaces /\ a[1] \in {ws, we}} =
               {<<ws, m.unlocked>>, <<we, m.locked>>}
        /\ net.pt[<<m.locked, ws>>] = 1 /\ net.pt[<<m.unlocked, we>>] = 1
        /\ net.tp[<<ws, m.unlocked>>] = 1 /\ net.tp[<<we, m.locked>>] = 1
        /\ phase = "run" /\ Enabled(net, marking, we) => marking[m.locked] = 0

C5_FiringMovesMutexToken(i) ==
    LET m == MutexOfGuard(i)
    IN  /\ WaitStart(i) \in fired' \ fired =>
              /\ marking'[m.unlocked] = marking[m.unlocked] + 1
              /\ marking'[m.locked] = marking[m.locked] - 1
        /\ WaitEnd(i) \in fired' \ fired =>
              /\ marking'[m.unlocked] = marking[m.unlocked] - 1
              /\ marking'[m.locked] = marking[m.locked] + 1

C5_WaitReleasesAndReacquiresMutex ==
    /\ [](\A i \in CallsOf(WAIT) : C5_WiredToGuardMutex(i))
    /\ [][phase = "run" => \A i \in CallsOf(WAIT) : C5_FiringMovesMutexToken(i)]_vars

\* Between wait-start and wait-end another thread has locked the mutex that
\* wait-start released.
C5_Witness ==
    /\ phase = "run"
    /\ \E i \in CallsOf(WAIT) :
          /\ WaitStart(i) \in fired
          /\ WaitEnd(i) \notin fired
          /\ marking[MutexOfGuard(i).locked] = 1
          /\ \E j \in CallsOf(LOCK) :
                /\ program[j].function # program[i].function
                /\ lock_transition_labels(KindIndex(j))[1] \in fired

(***************************************************************************)
(* C6: every notify_one call is one call transition, start place ->        *)
(* transition -> end place (and, with a cleanup place, an unwind           *)
(* transition start place -> cleanup place), whose only other arc is one   *)
(* output arc of weight 1 into signal_input of its condvar.  It has no     *)
(* input arc from a condvar place: it is enabled exactly when its start    *)
(* place is marked.                                                        *)
(***************************************************************************)
C6_NotifyCall(i) ==
    LET fp == program[i].places
        t == notify_one_transition_labels(KindIndex(i))[1]
        tu == notify_one_transition_labels(KindIndex(i))[2]
        cv == CondvarOf(i)
    IN  /\ t \in net.transitions
        /\ Preset(net, t) = {<<fp.start_place, t>>}
        /\ Postset(net, t) = {<<t, fp.end_place>>, <<t, cv.signal_input>>}
        /\ net.pt[<<fp.start_place, t>>] = 1
        /\ net.tp[<<t, fp.end_place>>] = 1
        /\ net.tp[<<t, cv.signal_input>>] = 1
        /\ IF fp.cleanup_place # NoPlace
           THEN /\ Preset(net, tu) = {<<fp.start_place, tu>>}
                /\ Postset(net, tu) = {<<tu, fp.cleanup_place>>}
           ELSE tu \notin net.transitions
        /\ phase = "run" => (Enabled(net, marking, t) <=> marking[fp.start_place] >= 1)

C6_NotifyOnlyProducesIntoSignalInput == \A i \in CallsOf(NOTIFY_ONE) : C6_NotifyCall(i)

\* A notify_one fired while the condvar had a waiter (lost_signal_possible
\* empty): it was enabled by its start place alone and its token is in
\* signal_input.
C6_Witness ==
    /\ phase = "run"
    /\ \E i \in CallsOf(NOTIFY_ONE) :
          /\ notify_one_transition_labels(KindIndex(i))[1] \in fired
          /\ marking[CondvarOf(i).lost_signal_possible] = 0
          /\ marking[CondvarOf(i).signal_input] = 1

(***************************************************************************)
(* C7: in every marking reachable from the initial marking, each mutex has *)
(* at most one token in its locked place and exactly one token in its      *)
(* unlocked and locked places together, whatever lock transitions, guard   *)
(* drops and condvar waits the program has on that mutex.                  *)
(***************************************************************************)
C7_MutexMutualExclusion ==
    phase = "run" =>
        \A i \in DOMAIN mutexes :
            /\ marking[mutexes[i].locked] <= 1
            /\ marking[mutexes[i].unlocked] + marking[mutexes[i].locked] = 1

\* A mutex locked again by another thread after a wait released it, in a
\* program that also drops a guard of that mutex.
C7_Witness ==
    /\ phase = "run"
    /\ \E i \in CallsOf(WAIT), j \in CallsOf(LOCK), d \in CallsOf("Drop") :
          /\ WaitStart(i) \in fired
          /\ program[j].function # program[i].function
          /\ lock_transition_labels(KindIndex(j))[1] \in fired
          /\ memory[program[d].args[1]].ref = memory[program[i].args[2]].ref
          /\ marking[MutexOfGuard(i).locked] = 1

\* The end place of the thread that join call k waits for, as the thread
\* naming writes it.
ThreadOfJoin(k) == memory[program[k].args[1]].ref
ThreadEndOfJoin(k) == "THREAD_" \o ToString(ThreadOfJoin(k)) \o "_END"

(***************************************************************************)
(* C8: the transition of a join call on thread i consumes from the place   *)
(* THREAD_i_END: in every reachable marking it is not enabled unless that  *)
(* place holds a token, and it has fired only after some transition put a  *)
(* token into that place.                                                  *)
(***************************************************************************)
C8_JoinCall(k) ==
    LET t == join_transition_labels(KindIndex(k))[1]
        e == ThreadEndOfJoin(k)
    IN  /\ e \in net.places
        /\ e = threads[ThreadOfJoin(k) + 1].end_place
        /\ <<e, t>> \in DOMAIN net.pt
        /\ phase = "run" =>
              /\ Enabled(net, marking, t) => marking[e] >= 1
              /\ t \in fired => \E u \in fired : <<u, e>> \in DOMAIN net.tp

C8_JoinWaitsForThreadEnd == \A k \in CallsOf(JOIN) : C8_JoinCall(k)

\* The program spawned a thread and joined it, and PROGRAM_END was reached
\* through the join transition.
C8_Witness ==
    /\ phase = "run"
    /\ marking[PROGRAM_END] >= 1
    /\ \E k \in CallsOf(JOIN) :
          /\ join_transition_labels(KindIndex(k))[1] \in fired
          /\ program[k].function = "main"

\* The program whose entry function is a single block ending in Return.
MinimalProgram == Len(program) = 1 /\ program[1].kind = "Return"

(***************************************************************************)
(* C9: the net of the program whose main is a single block ending in       *)
(* Return has exactly the places PROGRAM_START (1 token), PROGRAM_END and  *)
(* PROGRAM_PANIC (no token), the one transition main_RETURN and the two    *)
(* arcs PROGRAM_START -> main_RETURN -> PROGRAM_END of weight 1.  Its only *)
(* firing sequence is main_RETURN once, which moves the token to           *)
(* PROGRAM_END; PROGRAM_PANIC is never marked.                             *)
(***************************************************************************)
C9_MinimalProgramNet ==
    MinimalProgram =>
        LET initial == ("PROGRAM_START" :> 1) @@ ("PROGRAM_END" :> 0) @@ ("PROGRAM_PANIC" :> 0)
            final == ("PROGRAM_START" :> 0) @@ ("PROGRAM_END" :> 1) @@ ("PROGRAM_PANIC" :> 0)
        IN  /\ net.places = {"PROGRAM_START", "PROGRAM_END", "PROGRAM_PANIC"}
            /\ net.tokens = initial
            /\ net.transitions = {"main_RETURN"}
            /\ net.pt = (<<"PROGRAM_START", "main_RETURN">> :> 1)
            /\ net.tp = (<<"main_RETURN", "PROGRAM_END">> :> 1)
            /\ phase = "run" =>
                  \/ /\ marking = initial /\ fired = {}
                     /\ Enabled(net, marking, "main_RETURN")
                  \/ /\ marking = final /\ fired = {"main_RETURN"}
                     /\ ~Enabled(net, marking, "main_RETURN")

\* The minimal program ran to its end.
C9_Witness ==
    /\ MinimalProgram
    /\ phase = "run"
    /\ marking["PROGRAM_END"] = 1
    /\ "main_RETURN" \in fired

(***************************************************************************)
(* C10: after every completed translation step each transition of the net  *)
(* has at least one input arc and at least one output arc, among them the  *)
(* two transitions of every condvar, the wait-start, wait-end and          *)
(* wait-unwind transitions and the notify_one transitions; every arc has   *)
(* weight 1.                                                               *)
(***************************************************************************)
C10_StructurallyWellFormed ==
    /\ \A t \in net.transitions : Preset(net, t) # {} /\ Postset(net, t) # {}
    /\ \A a \in DOMAIN net.pt : net.pt[a] = 1
    /\ \A a \in DOMAIN net.tp : net.tp[a] = 1
    /\ \A i \in DOMAIN condvars :
          {transition_labels(i - 1)[1], transition_labels(i - 1)[2]} \subseteq net.transitions
    /\ \A i \in CallsOf(WAIT) :
          /\ {WaitStart(i), WaitEnd(i)} \subseteq net.transitions
          /\ program[i].places.cleanup_place # NoPlace => WaitUnwind(i) \in net.transitions
    /\ \A i \in CallsOf(NOTIFY_ONE) :
          notify_one_transition_labels(KindIndex(i))[1] \in net.transitions

\* A finished net with a condvar, a wait call with its unwind transition and
\* a notify_one call.
C10_Witness ==
    /\ phase = "run"
    /\ condvars # <<>>
    /\ CallsOf(NOTIFY_ONE) # {}
    /\ \E i \in CallsOf(WAIT) : WaitUnwind(i) \in net.transitions

\* The transitions that consume from the block of terminator i.
TransitionsOf(i) == {t \in net.transitions : <<program[i].places.start_place, t>> \in DOMAIN net.pt}

(***************************************************************************)
(* C11: after any sequence of translated calls no label is carried by two  *)
(* nodes of the net: no label names both a place and a transition, every   *)
(* terminator has transitions of its own (no transition is shared by the   *)
(* blocks of two terminators, be they two calls of the same foreign        *)
(* function or calls of different kinds with the same index), and the wait *)
(* counter, the notify_one counter and the registry of condvars each count *)
(* the calls of their kind.                                                *)
(***************************************************************************)
C11_LabelsAreUnique ==
    /\ net.places \cap net.transitions = {}
    /\ \A i \in DOMAIN program : TransitionsOf(i) # {}
    /\ \A i, j \in DOMAIN program : i # j => TransitionsOf(i) \cap TransitionsOf(j) = {}
    /\ wait_counter = Cardinality(CallsOf(WAIT))
    /\ notify_one_counter = Cardinality(CallsOf(NOTIFY_ONE))
    /\ Len(condvars) = Cardinality(CallsOf("std::sync::Condvar::new"))

UnsupportedKinds ==
    {"Yield", "GeneratorDrop", "FalseEdge", "FalseUnwind", "InlineAsm", "DropAndReplace"}

SupportedKinds ==
    {"Goto", "SwitchInt", "Resume", "Abort", "Return", "Unreachable", "Drop", "Call", "Assert"}

(***************************************************************************)
(* C12: determinism of the translation is a statement about two runs on    *)
(* the same input.  Every handler of the model is an operator of the       *)
(* translator's state and of the terminator visited, so the statement      *)
(* compares two evaluations of the same operators; no formula is given.    *)
(***************************************************************************)

(***************************************************************************)
(* C13: a terminator of kind Yield, GeneratorDrop, FalseEdge, FalseUnwind, *)
(* InlineAsm or DropAndReplace ends the translation with the unsupported   *)
(* failure, raised by the dispatch itself before any handler ran; a        *)
(* terminator of kind Goto, SwitchInt, Resume, Abort, Return, Unreachable, *)
(* Drop, Call or Assert never gets a failure from the dispatch (a Call may *)
(* still fail while its callee is resolved).                               *)
(***************************************************************************)
C13_UnsupportedKindsAbort ==
    result # NoValue =>
        /\ input.kind \in UnsupportedKinds =>
              /\ IsFailure(result)
              /\ FailureClass(result) = "unsupported"
              /\ result.raised_by = "visit_terminator"
              /\ net = InitialNet
        /\ input.kind \in SupportedKinds =>
              ~(IsFailure(result) /\ result.raised_by = "visit_terminator")
        /\ input.kind \in SupportedKinds \ {"Call"} => result.outcome = "handled"

\* DropAndReplace was visited and refused.
C13_Witness ==
    /\ result # NoValue
    /\ input.kind = "DropAndReplace"
    /\ IsFailure(result)

\* The type the callee operand of the Call has.
CalleeType ==
    IF input.func.form \in {"Copy", "Move"} THEN input.local_decls[input.func.place]
    ELSE input.func.ty

(***************************************************************************)
(* C14: the callee of a Call whose operand has the type of a function      *)
(* definition or of a closure resolves to that definition; with a function *)
(* pointer, or any other type, the translation ends with the unsupported   *)
(* failure, which is not of the internal-invariant (BUG) class.            *)
(***************************************************************************)
C14_CalleeResolution ==
    result # NoValue /\ input.kind = "Call" =>
        IF CalleeType.kind \in {"FnDef", "Closure"}
        THEN result.outcome = "handled" /\ result.def_id = CalleeType.def_id
        ELSE IsFailure(result) /\ FailureClass(result) = "unsupported"

\* The program place that terminator i (Resume, Abort or Unreachable) leads to.
ExitPlace(i) == IF program[i].kind = "Unreachable" THEN PROGRAM_END ELSE PROGRAM_PANIC

ExitTerminators == CallsOf("Resume") \cup CallsOf("Abort") \cup CallsOf("Unreachable")

(***************************************************************************)
(* C15: a Resume or Abort terminator emits one transition from its block   *)
(* to PROGRAM_PANIC, an Unreachable terminator one transition from its     *)
(* block to PROGRAM_END, and nothing else leaves that block.  In the       *)
(* finished net a token in such a block can move to PROGRAM_PANIC          *)
(* (PROGRAM_END), and from there no transition takes it back: the two      *)
(* program places have no outgoing arc.                                    *)
(***************************************************************************)
C15_ExitOf(i) ==
    LET b == program[i].places.start_place
    IN  \E t \in TransitionsOf(i) :
            /\ TransitionsOf(i) = {t}
            /\ Preset(net, t) = {<<b, t>>}
            /\ Postset(net, t) = {<<t, ExitPlace(i)>>}
            /\ net.pt[<<b, t>>] = 1 /\ net.tp[<<t, ExitPlace(i)>>] = 1
            /\ phase = "run" /\ marking[b] >= 1 =>
                  /\ Enabled(net, marking, t)
                  /\ FireResult(net, marking, t)[ExitPlace(i)] >= 1

C15_ExitsAreTerminal ==
    /\ \A i \in ExitTerminators : C15_ExitOf(i)
    /\ \A a \in DOMAIN net.pt : a[1] \notin {PROGRAM_PANIC, PROGRAM_END}

\* A run ended in PROGRAM_PANIC through the unwind transition of an Abort,
\* in a function that ends in Unreachable.
C15_Witness ==
    /\ phase = "run"
    /\ marking[PROGRAM_PANIC] = 1
    /\ CallsOf("Unreachable") # {}
    /\ \E i \in CallsOf("Abort") : unwind_transition_label(program[i].function) \in fired

\* The slot dropped by Drop terminator i denotes a lock guard of mutex k.
DropsGuardOf(i, k) ==
    LET place == program[i].args[1]
    IN  place \in DOMAIN memory /\ memory[place].kind = "guard" /\ memory[place].ref = k - 1

(***************************************************************************)
(* C16: every Drop terminator emits exactly one transition out of its      *)
(* block, with an arc to the target block and, when the terminator names   *)
(* an unwind block, an arc to it.  That transition takes the token of a    *)
(* mutex's locked place and returns one to its unlocked place if and only  *)
(* if the dropped slot denotes a lock guard of that mutex; otherwise it    *)
(* has no arc from or to a place of that mutex.                            *)
(***************************************************************************)
C16_DropOf(i) ==
    LET fp == program[i].places
    IN  \E t \in TransitionsOf(i) :
            /\ TransitionsOf(i) = {t}
            /\ <<t, fp.end_place>> \in DOMAIN net.tp
            /\ fp.cleanup_place # NoPlace <=> <<t, fp.cleanup_place>> \in DOMAIN net.tp
            /\ \A a \in Postset(net, t) :
                  a[2] \in {fp.end_place, fp.cleanup_place} \cup AllMutexPlaces
            /\ \A k \in DOMAIN mutexes :
                  IF DropsGuardOf(i, k)
                  THEN /\ <<mutexes[k].locked, t>> \in DOMAIN net.pt
                       /\ <<t, mutexes[k].unlocked>> \in DOMAIN net.tp
                       /\ <<mutexes[k].unlocked, t>> \notin DOMAIN net.pt
                       /\ <<t, mutexes[k].locked>> \notin DOMAIN net.tp
                       /\ phase = "run" /\ Enabled(net, marking, t) =>
                             FireResult(net, marking, t)[mutexes[k].unlocked] =
                                 marking[mutexes[k].unlocked] + 1
                  ELSE \A p \in {mutexes[k].locked, mutexes[k].unlocked} :
                           <<p, t>> \notin DOMAIN net.pt /\ <<t, p>> \notin DOMAIN net.tp

C16_DropUnlocksExactlyGuards == \A i \in CallsOf("Drop") : C16_DropOf(i)

\* The drop of a lock guard, with an unwind block, fired and unlocked the
\* mutex, in a program that also drops a local that is no guard.
C16_Witness ==
    /\ phase = "run"
    /\ \E i, j \in CallsOf("Drop") :
          /\ DropsGuardOf(i, 1)
          /\ program[i].places.cleanup_place # NoPlace
          /\ TransitionsOf(i) \subseteq fired
          /\ marking[mutexes[1].unlocked] = 1
          /\ ~DropsGuardOf(j, 1)

\* C17: when an aggregate is built from operands of which at least one denotes
\* a synchronisation handle, the destination becomes an aggregate whose field
\* k is the handle of operand k, for each operand that denotes a handle; when
\* no operand denotes a handle the memory is unchanged.
HandleOperands(operands, mem) ==
    {k \in DOMAIN operands : operands[k].operand # "Constant" /\ operands[k].place \in DOMAIN mem}

C17_FieldAccessYieldsOperand ==
    (input.op = "aggregate" /\ result # NoValue) =>
        LET handles == HandleOperands(input.operands, input.memory)
        IN  IF handles = {}
            THEN result = Ok(input.memory)
            ELSE /\ ~IsFailure(result)
                 /\ result.memory[input.place].kind = "aggregate"
                 /\ \A k \in handles :
                        LET access == link_field_in_aggregate(result.memory, Local(3), input.place, k - 1)
                        IN  /\ ~IsFailure(access)
                            /\ access.memory[Local(3)] = input.memory[input.operands[k].place]

\* C18: linking the return value of a call inspects only the first argument:
\* when the argument list is empty, or the first argument is a constant, or
\* the first argument's place is not of a synchronisation type, the memory is
\* left unchanged and no error is raised, whatever the other arguments are.
C18_OnlyFirstArgumentInspected ==
    (input.op = "link_return" /\ result # NoValue) =>
        LET first_argument == extract_nth_argument_as_place(input.operands, 0)
        IN  (\/ ~first_argument.some
             \/ /\ ~check_if_sync_variable(first_argument.place, input.local_decls)
                /\ ~check_if_sync_variable(Local(first_argument.place.local), input.local_decls))
            => result = Ok(input.memory)

\* C20: link_if_sync_variable with a source that has a non-empty projection
\* does one of three things: (1) the destination's type is not a
\* synchronisation type: memory unchanged; (2) the projection has a Field:
\* the destination is linked to the field numbered by the last Field of the
\* aggregate at the base local when the projection has a Deref, at the
\* projected place otherwise; (3) the destination's type is a synchronisation
\* type and the projection has no Field: an internal-invariant error.
FieldsOf(projection) == {i \in DOMAIN projection : projection[i].elem = "Field"}

C20_Source == input.operands[1].place

C20_Aggregate ==
    IF \E i \in DOMAIN C20_Source.projection : C20_Source.projection[i].elem = "Deref"
    THEN Local(C20_Source.local)
    ELSE C20_Source

FlowPlaces(arcs) == {p \in arcs : p \notin AllCondvarPlaces(condvars) \cup AllMutexPlaces}

C19_Fragment(i) ==
    LET fp == program[i].places
        ws == WaitStart(i)
        we == WaitEnd(i)
        unwind == WaitUnwind(i)
    IN  /\ FlowPlaces({a[1] : a \in Preset(net, ws)}) = {fp.start_place}
        /\ FlowPlaces({a[2] : a \in Postset(net, ws)}) = {}
        /\ FlowPlaces({a[1] : a \in Preset(net, we)}) = {}
        /\ FlowPlaces({a[2] : a \in Postset(net, we)}) = {fp.end_place}
        /\ unwind \in net.transitions <=> fp.cleanup_place # NoPlace
        /\ unwind \in net.transitions =>
              /\ {a[1] : a \in Preset(net, unwind)} = {fp.start_place}
              /\ {a[2] : a \in Postset(net, unwind)} = {fp.cleanup_place}

C19_EndAfterStartAndSignal(i) ==
    WaitEnd(i) \in fired =>
        /\ WaitStart(i) \in fired
        /\ transition_labels(memory[program[i].args[1]].ref)[2] \in fired

C19_WaitEndOnlyAfterStartAndSignal ==
    \A i \in CallsOf(WAIT) : C19_Fragment(i) /\ C19_EndAfterStartAndSignal(i)

\* C21: is_place_ty_with_concrete_type(ty, "M<T>") is true exactly when the
\* type string is M<X> for a type argument X other than the parameter "T",
\* generic types such as Vec<i32> included; it is false when X is "T" or when
\* the part before '<' is not M.
C21_ConcreteTypeArgument ==
    (input.op = "is_place_ty_with_concrete_type" /\ result # NoValue) =>
        (result.value <=>
            \E X \in TypeArguments(MaxNesting) :
                /\ X # <<"T">>
                /\ input.ty_string = Generic(Head(input.expected_ty_str), X))

\* C24: every function name that is_supported_function accepts is handled by
\* call_function without its "BUG: Call handler ... is not defined" failure,
\* and a postprocessing task comes back exactly for Condvar::wait,
\* Condvar::wait_while and Mutex::<T>::new.
C24_SupportedNamesAreHandled ==
    (input.op = "call_function" /\ result # NoValue /\ result.supported) =>
        /\ ~IsFailure(result.call)
        /\ result.call.task <=>
              input.function_name \in {"std::sync::Condvar::wait", "std::sync::Condvar::wait_while",
                                       "std::sync::Mutex::<T>::new"}

\* C22: in every reachable marking, for every condvar, lost_signal_possible +
\* wait_input = 1: at most one waiter's token is in wait_input, and while it
\* is there no wait-start transition of that condvar is enabled.
C22_Condvar(cv) ==
    /\ marking[cv.lost_signal_possible] + marking[cv.wait_input] = 1
    /\ marking[cv.wait_input] = 1 =>
          \A i \in CallsOf(WAIT) : CondvarOf(i) = cv => ~Enabled(net, marking, WaitStart(i))

C22_OneWaiterAtATime ==
    phase = "run" => \A c \in DOMAIN condvars : C22_Condvar(condvars[c])

\* Two wait calls on one condvar: the second wait-start has fired after the
\* signal_transition fired for the first, and its token is in wait_input.
C22_Witness ==
    /\ phase = "run"
    /\ \E i, j \in CallsOf(WAIT) :
          /\ i < j
          /\ CondvarOf(i) = CondvarOf(j)
          /\ {WaitStart(i), WaitStart(j), transition_labels(memory[program[i].args[1]].ref)[2]} \subseteq fired
          /\ marking[CondvarOf(j).wait_input] = 1
          /\ marking[CondvarOf(j).lost_signal_possible] = 0

\* C23: a notify token is never stuck: in every reachable marking in which
\* signal_input of a condvar holds a token, its lost_signal_transition or its
\* signal_transition is enabled; under weak fairness on the two transitions
\* signal_input is eventually empty.
NotifyPending(i) ==
    /\ phase = "run"
    /\ i <= Len(condvars)
    /\ marking[condvars[i].signal_input] >= 1

NotifyConsumed(i) ==
    /\ phase = "run"
    /\ i <= Len(condvars)
    /\ marking[condvars[i].signal_input] = 0

C23_NotifyTokenNeverStuck ==
    /\ [](\A i \in 1..MaxCondvars :
            NotifyPending(i) =>
                \/ Enabled(net, marking, transition_labels(i - 1)[1])
                \/ Enabled(net, marking, transition_labels(i - 1)[2]))
    /\ \A i \in 1..MaxCondvars : NotifyPending(i) ~> NotifyConsumed(i)

\* Two notify_one calls have fired: one token was lost, the other reached a
\* waiter, and signal_input is empty again.
C23_Witness ==
    /\ NotifyConsumed(1)
    /\ {notify_one_transition_labels(0)[1], notify_one_transition_labels(1)[1],
        transition_labels(0)[1], transition_labels(0)[2]} \subseteq fired

\* C25: the condvar registry is append-only and indexed from 0 in creation
\* order: a step never removes or changes a registered condvar, every
\* condvar reference held by the memory is a valid index, each call of
\* Condvar::new creates exactly one condvar, and the index in the label of
\* its call transition is the index in the labels of the places and
\* transitions of the condvar it created.
CONDVAR_NEW == "std::sync::Condvar::new"

C25_NewCall(i) ==
    LET index == KindIndex(i)
        call_transition == new_transition_labels(index)[1]
    IN  /\ <<program[i].places.start_place, call_transition>> \in DOMAIN net.pt
        /\ <<call_transition, program[i].places.end_place>> \in DOMAIN net.tp
        /\ index + 1 \in DOMAIN condvars
        /\ get_condvar_from_ref(condvars, index) =
              [lost_signal_possible |-> place_labels(index)[1],
               signal_input |-> place_labels(index)[2],
               wait_input |-> place_labels(index)[3],
               signal_output |-> place_labels(index)[4]]
        /\ CondvarPlaces(get_condvar_from_ref(condvars, index)) \subseteq net.places
        /\ {transition_labels(index)[1], transition_labels(index)[2]} \subseteq net.transitions
        /\ Cardinality({s \in SlotsOf(memory, "condvar") : memory[s].ref = index}) = 1

C25_Registry ==
    /\ Len(condvars) = Cardinality(CallsOf(CONDVAR_NEW))
    /\ \A s \in SlotsOf(memory, "condvar") : memory[s].ref \in 0..(Len(condvars) - 1)
    /\ \A i \in CallsOf(CONDVAR_NEW) : C25_NewCall(i)

C25_RegistryIsAppendOnly ==
    /\ []C25_Registry
    /\ [][\A r \in DOMAIN condvars : r \in DOMAIN condvars' /\ condvars'[r] = condvars[r]]_vars

\* A notify_one call on the first condvar is translated after a second
\* condvar was created.
C25_Witness ==
    /\ Len(condvars) >= 2
    /\ \E i \in CallsOf(NOTIFY_ONE), j \in CallsOf(CONDVAR_NEW) :
          /\ j < i
          /\ KindIndex(j) = 1
          /\ memory[program[i].args[1]].ref = 0
          /\ <<notify_one_transition_labels(KindIndex(i))[1], place_labels(0)[2]>> \in DOMAIN net.tp

\* C26: the unwind transition of a wait call is enabled exactly when the
\* start place of the call is marked, whatever the marking of the condvar
\* and of the mutex; firing it moves the token to the cleanup place and
\* leaves every place of the condvar and both places of the guard's mutex
\* unchanged.
WaitCallsWithUnwind == {i \in CallsOf(WAIT) : program[i].places.cleanup_place # NoPlace}

C26_UnwindEnabled(i) ==
    Enabled(net, marking, WaitUnwind(i)) <=> marking[program[i].places.start_place] >= 1

C26_UnwindFiring(i) ==
    WaitUnwind(i) \in fired' \ fired =>
        /\ marking'[program[i].places.start_place] = marking[program[i].places.start_place] - 1
        /\ marking'[program[i].places.cleanup_place] = marking[program[i].places.cleanup_place] + 1
        /\ \A p \in CondvarPlaces(CondvarOf(i)) \cup {MutexOfGuard(i).unlocked, MutexOfGuard(i).locked} :
              marking'[p] = marking[p]

C26_WaitUnwindLeavesCondvarAndMutex ==
    /\ [](phase = "run" => \A i \in WaitCallsWithUnwind : C26_UnwindEnabled(i))
    /\ [][phase = "run" => \A i \in WaitCallsWithUnwind : C26_UnwindFiring(i)]_vars

\* The unwind transition of a wait call has fired: the mutex is still locked
\* and the token of the condvar is still in lost_signal_possible.
C26_Witness ==
    /\ phase = "run"
    /\ \E i \in WaitCallsWithUnwind :
          /\ WaitUnwind(i) \in fired
          /\ WaitStart(i) \notin fired
          /\ marking[program[i].places.cleanup_place] >= 1
          /\ marking[MutexOfGuard(i).locked] = 1
          /\ marking[CondvarOf(i).lost_signal_possible] = 1

=============================================================================
